---------------------------- MODULE Spec2Model ----------------------------
(***************************************************************************)
(* A model of the sheet-analysis engine of windo: row parsing and filter   *)
(* evaluation (googleSheets.ts), day bucketing, delta calculation, column  *)
(* reconciliation and the analytics aggregate kept by the SheetComparison  *)
(* component, together with its persistence through profilesDB.            *)
(*                                                                         *)
(* Strings are sequences of character codes (ASCII): 32 is the space,      *)
(* 48..57 the digits, 65..90 the upper-case and 97..122 the lower-case     *)
(* letters.  An optional value (T | undefined) is a sequence of length 0   *)
(* or 1.  A calendar day is a day number; format(date, 'yyyy-MM-dd') is    *)
(* rendered fixed-width and zero-padded (two digits here), so that the     *)
(* lexicographic order of the rendered strings can be compared with the    *)
(* chronological order.                                                    *)
(***************************************************************************)
EXTENDS Integers, Sequences, FiniteSets, TLC

VARIABLES
    fn,            \* pure-function harness: the function applied ("none" before the call)
    arg,           \* its inputs
    ret,           \* its result
    profiles,      \* useState: the profile list
    entryCounts,   \* useState: the aggregate's entry counts
    comparisons,   \* useState: the aggregate's comparisons
    sheetDataMap,  \* useState: profile name -> fetched rows or the error sentinel
    refreshing,    \* useState: docIds being refreshed
    error,         \* useState: the error message ("" for null)
    loading,       \* useState
    today,         \* the day new Date() falls on
    dbLastRun,     \* profile store: docIds whose lastRun has been written
    analyticsDoc,  \* profile store: the analytics/latest document
    writes,        \* setDoc requests of saveAnalytics issued and not yet applied
    calls,         \* the invocations of runAnalysis / refreshAllProfiles, by slot
    nCalls,        \* invocations started so far
    merged,        \* history: the results of the last successful fetch
    fresh,         \* history: per sheet, the results merged since the last clearing
    editingProfile, \* useState: the copy of the profile being edited, or null
    isEditing,     \* useState: the docId of the profile being edited, or null
    heap,          \* the filter-group objects, by reference
    saving,        \* the invocations of saveProfile awaiting profilesDB.update
    editStart,     \* history: the profile list as it read at the last startEditing
    lastSave       \* history: how the last saveProfile ended ("none" before any)

harness == <<fn, arg, ret>>

component == <<profiles, entryCounts, comparisons, sheetDataMap, refreshing, error,
               loading, today, dbLastRun, analyticsDoc, writes, calls, nCalls,
               merged, fresh>>

editor == <<editingProfile, isEditing, heap, saving, editStart, lastSave>>

vars == <<harness, component, editor>>

----------------------------------------------------------------------------
(* Bounds of the model *)

MaxRows == 3

MaxEntries == 3

MaxGroups == 2

\* characters of a range string
MaxRange == 5

\* rows of an exported table, and cells of a row
MaxCsv == 2

\* filters of a filter group in the editor
MaxFilters == 2

\* invocations of runAnalysis and refreshAllProfiles in a behaviour
MaxCalls == 1

----------------------------------------------------------------------------
(* Strings *)

None == <<>>

Some(x) == <<x>>

IsSpace(c) == c \in {9, 10, 13, 32}

\* String.prototype.trim
RECURSIVE TrimStart(_)
TrimStart(s) ==
    IF s # <<>> /\ IsSpace(Head(s)) THEN TrimStart(Tail(s)) ELSE s

RECURSIVE TrimEnd(_)
TrimEnd(s) ==
    IF s # <<>> /\ IsSpace(s[Len(s)]) THEN TrimEnd(SubSeq(s, 1, Len(s) - 1)) ELSE s

Trim(s) == TrimEnd(TrimStart(s))

\* String.prototype.split with a one-character separator: the list of pieces
RECURSIVE SplitFrom(_, _, _)
SplitFrom(s, sep, piece) ==
    IF s = <<>> THEN <<piece>>
    ELSE IF Head(s) = sep THEN <<piece>> \o SplitFrom(Tail(s), sep, <<>>)
    ELSE SplitFrom(Tail(s), sep, Append(piece, Head(s)))

Split(s, sep) == SplitFrom(s, sep, <<>>)

\* row.date.split(' ')[0]
DatePart(date) == Split(date, 32)[1]

\* arr[i] for a 0-based index i: undefined when out of range
At(arr, i) == IF i + 1 \in 1..Len(arr) THEN Some(arr[i + 1]) ELSE None

\* x?.trim()
OptTrim(o) == IF o = None THEN None ELSE Some(Trim(o[1]))

\* .filter(Boolean) over optional strings: drops undefined and ''
Truthy(os) ==
    LET kept == SelectSeq(os, LAMBDA o: o # None /\ o[1] # <<>>)
    IN  [i \in 1..Len(kept) |-> kept[i][1]]

\* Array.prototype.includes
Includes(arr, x) == \E i \in 1..Len(arr): arr[i] = x

\* format(date, 'yyyy-MM-dd') of a day number
Format(day) == <<48 + (day \div 10), 48 + (day % 10)>>

----------------------------------------------------------------------------
(* The component's state while an engine function is checked on its own: the
   state of useState before anything is loaded *)

\* no fetch has succeeded yet; n alternates with every merge, replaced and kept
\* tell whether the last merge found earlier results of its sheet and results of
\* other sheets
NoMerge ==
    [n |-> 0, sheetName |-> "", entryCounts |-> <<>>, comparisons |-> <<>>,
     replaced |-> FALSE, kept |-> FALSE]

\* nothing is being edited or saved
NotEditing ==
    /\ editingProfile = None
    /\ isEditing = None
    /\ heap = <<>>
    /\ saving = <<>>
    /\ editStart = None
    /\ lastSave = "none"

Unmounted ==
    /\ NotEditing
    /\ profiles = <<>>
    /\ entryCounts = <<>>
    /\ comparisons = <<>>
    /\ sheetDataMap = <<>>
    /\ refreshing = <<>>
    /\ error = ""
    /\ loading = FALSE
    /\ today = 0
    /\ dbLastRun = {}
    /\ analyticsDoc = None
    /\ writes = <<>>
    /\ calls = <<>>
    /\ nCalls = 0
    /\ merged = NoMerge
    /\ fresh = <<>>

----------------------------------------------------------------------------
(* ColumnReconciler: analyzeColumnChanges *)

dayEntries(sheetData, columnIndex, date) ==
    LET picked == SelectSeq(sheetData,
                      LAMBDA row: DatePart(row.date) = date /\ row.matchesFilters)
    IN  Truthy([i \in 1..Len(picked) |-> OptTrim(At(picked[i].values, columnIndex - 1))])

analyzeColumnChanges_dedup(sheetData, columnIndex, date1, date2) ==
    LET day1Entries == dayEntries(sheetData, columnIndex, date1)
        day2Entries == dayEntries(sheetData, columnIndex, date2)
        added0  == SelectSeq(day2Entries, LAMBDA e: ~Includes(day1Entries, e))
        removed == SelectSeq(day1Entries, LAMBDA e: ~Includes(day2Entries, e))
        added   == SelectSeq([i \in 1..Len(added0) |-> <<i, added0[i]>>],
                       LAMBDA p: \A j \in 1..(p[1] - 1): added0[j] # p[2])
    IN  IF added0 = <<>> /\ removed = <<>> THEN None
        ELSE Some([added |-> [i \in 1..Len(added) |-> added[i][2]],
                   removed |-> removed,
                   column |-> columnIndex, date1 |-> date1, date2 |-> date2])

analyzeColumnChanges(sheetData, columnIndex, date1, date2) ==
    LET day1Entries == dayEntries(sheetData, columnIndex, date1)
        day2Entries == dayEntries(sheetData, columnIndex, date2)
        added   == SelectSeq(day2Entries, LAMBDA e: ~Includes(day1Entries, e))
        removed == SelectSeq(day1Entries, LAMBDA e: ~Includes(day2Entries, e))
    IN  IF added = <<>> /\ removed = <<>> THEN None
        ELSE Some([added |-> added, removed |-> removed,
                   column |-> columnIndex, date1 |-> date1, date2 |-> date2])

\* the rows the reconciler is exercised on: a time-of-day after the date, cells
\* with surrounding blanks, blank and missing cells, rows the filters reject
ReconcileRows ==
    { [date |-> Format(9) \o <<32, 49, 58, 48>>, values |-> <<<<97>>, <<120>>>>, matchesFilters |-> TRUE],
      [date |-> Format(9),  values |-> <<<<32, 98, 32>>>>,        matchesFilters |-> TRUE],
      [date |-> Format(9),  values |-> <<<<99>>>>,                matchesFilters |-> FALSE],
      [date |-> Format(9),  values |-> <<>>,                      matchesFilters |-> TRUE],
      [date |-> Format(10), values |-> <<<<97>>, <<121>>>>,       matchesFilters |-> TRUE],
      [date |-> Format(10) \o <<32, 50>>, values |-> <<<<98>>>>,  matchesFilters |-> TRUE],
      [date |-> Format(10), values |-> <<<<32>>, <<97>>>>,        matchesFilters |-> TRUE],
      [date |-> <<32>> \o Format(10), values |-> <<<<100>>>>,     matchesFilters |-> TRUE] }

SeqsUpTo(S, n) == UNION { [1..k -> S] : k \in 0..n }

InitReconcile ==
    /\ fn = "none"
    /\ arg \in [sheetData : SeqsUpTo(ReconcileRows, MaxRows),
                columnIndex : 0..2,
                date1 : {Format(9), Format(10)},
                date2 : {Format(9), Format(10)}]
    /\ ret = None
    /\ Unmounted

CallAnalyzeColumnChanges ==
    /\ fn = "none"
    /\ "date1" \in DOMAIN arg
    /\ fn' = "analyzeColumnChanges"
    /\ ret' = analyzeColumnChanges(arg.sheetData, arg.columnIndex, arg.date1, arg.date2)
    /\ UNCHANGED <<arg, component, editor>>

SpecReconcile == InitReconcile /\ [][CallAnalyzeColumnChanges]_vars

----------------------------------------------------------------------------
(* C1: the result of analyzeColumnChanges, stated over row positions *)

\* the substring of s before its first space (all of s when it has none)
BeforeFirstSpace(s) ==
    LET stops == {k \in 1..Len(s) : s[k] = 32} \cup {Len(s) + 1}
        first == CHOOSE k \in stops : \A m \in stops : k <= m
    IN  SubSeq(s, 1, first - 1)

\* the elements f[i], i in S, by increasing position
RECURSIVE InOrder(_, _)
InOrder(S, f) ==
    IF S = {} THEN <<>>
    ELSE LET m == CHOOSE i \in S : \A j \in S : i <= j
         IN  <<f[m]>> \o InOrder(S \ {m}, f)

\* positions of the rows of a day that match the filters and hold a non-blank cell
C1_Positions(rows, column, date) ==
    {i \in 1..Len(rows) :
        /\ rows[i].matchesFilters
        /\ BeforeFirstSpace(rows[i].date) = date
        /\ column \in 1..Len(rows[i].values)
        /\ Trim(rows[i].values[column]) # <<>>}

C1_Cell(rows, column) ==
    [i \in 1..Len(rows) |->
        IF column \in 1..Len(rows[i].values) THEN Trim(rows[i].values[column]) ELSE <<>>]

\* C1: added is day2Entries without the values occurring in day1Entries, removed
\* is day1Entries without the values occurring in day2Entries, both in row order
\* with duplicates kept, the day entries being the trimmed non-empty cells of the
\* matching rows of that day; the result is absent iff both are empty.
C1_Reconcile ==
    fn = "analyzeColumnChanges" =>
        LET rows == arg.sheetData
            cell == C1_Cell(rows, arg.columnIndex)
            p1 == C1_Positions(rows, arg.columnIndex, arg.date1)
            p2 == C1_Positions(rows, arg.columnIndex, arg.date2)
            day1Entries == InOrder(p1, cell)
            day2Entries == InOrder(p2, cell)
            added == InOrder({i \in p2 : \A j \in p1 : cell[j] # cell[i]}, cell)
            removed == InOrder({i \in p1 : \A j \in p2 : cell[j] # cell[i]}, cell)
            disjoint == \A i \in p1 : \A j \in p2 : cell[i] # cell[j]
        IN  /\ (ret = None) <=> (added = <<>> /\ removed = <<>>)
            /\ ret # None => ret[1].added = added /\ ret[1].removed = removed
            /\ (ret # None /\ disjoint) =>
                   ret[1].added = day2Entries /\ ret[1].removed = day1Entries

\* a change with a repeated added value and a removed value that was trimmed
C1_Witness ==
    /\ fn = "analyzeColumnChanges"
    /\ ret # None
    /\ Len(ret[1].added) = 2 /\ ret[1].added[1] = ret[1].added[2]
    /\ ret[1].removed = <<<<98>>>>
    /\ \E i \in 1..Len(arg.sheetData) : arg.sheetData[i].values = <<<<32, 98, 32>>>>

----------------------------------------------------------------------------
(* DeltaCalculator: calculateDelta, getDeltaDetails, calculateDeltaWithCustomDate *)

\* String.prototype.localeCompare on digit strings: the sign of the
\* lexicographic comparison
RECURSIVE LocaleCompare(_, _)
LocaleCompare(a, b) ==
    IF a = <<>> /\ b = <<>> THEN 0
    ELSE IF a = <<>> THEN -1
    ELSE IF b = <<>> THEN 1
    ELSE IF Head(a) < Head(b) THEN -1
    ELSE IF Head(a) > Head(b) THEN 1
    ELSE LocaleCompare(Tail(a), Tail(b))

\* one insertion of the stable sort with comparator (a, b) => b.date.localeCompare(a.date)
RECURSIVE InsertByDateDesc(_, _)
InsertByDateDesc(sorted, x) ==
    IF sorted = <<>> THEN <<x>>
    ELSE IF LocaleCompare(x.date, Head(sorted).date) > 0 THEN <<x>> \o sorted
    ELSE <<Head(sorted)>> \o InsertByDateDesc(Tail(sorted), x)

RECURSIVE SortByDateDesc(_)
SortByDateDesc(entries) ==
    IF entries = <<>> THEN <<>>
    ELSE InsertByDateDesc(SortByDateDesc(SubSeq(entries, 1, Len(entries) - 1)),
                          entries[Len(entries)])

\* entryCounts.filter(entry => entry.sheetName === sheetName).sort(...)
sortedEntries(counts, sheetName) ==
    SortByDateDesc(SelectSeq(counts, LAMBDA entry: entry.sheetName = sheetName))

\* Array.prototype.find, given the elements that satisfy the test in array
\* order: the first of them, or undefined
Found(hits) == IF hits = <<>> THEN None ELSE Some(hits[1])

RECURSIVE Gcd(_, _)
Gcd(a, b) == IF b = 0 THEN a ELSE Gcd(b, a % b)

Abs(n) == IF n < 0 THEN -n ELSE n

\* the number num/den (den # 0) as a fraction in lowest terms with den > 0
Frac(num, den) ==
    LET g == Gcd(Abs(num), Abs(den))
        sign == IF den < 0 THEN -1 ELSE 1
    IN  [num |-> sign * (num \div g), den |-> Abs(den) \div g]

\* base === 0 ? 0 : (change / base) * 100
percentageChange(change, base) ==
    IF base = 0 THEN Frac(0, 1) ELSE Frac(change * 100, base)

DeltaChange(todayCount, compareCount) ==
    [today |-> todayCount, yesterday |-> compareCount, change |-> todayCount - compareCount,
     percentageChange |-> percentageChange(todayCount - compareCount, compareCount)]

calculateDelta(counts, sheetName) ==
    LET sorted == sortedEntries(counts, sheetName)
    IN  IF Len(sorted) < 2 THEN None
        ELSE Some(DeltaChange(sorted[1].count, sorted[2].count))

\* a custom date that is null or '' is falsy
Given(customDate) == customDate # None /\ customDate[1] # <<>>

getDeltaDetails(counts, sheetName, sheetData, columnToAnalyze, customCompareDate, profileError) ==
    LET sorted == sortedEntries(counts, sheetName)
        customEntry ==
            IF Given(customCompareDate)
            THEN Found(SelectSeq(counts, LAMBDA entry:
                     entry.sheetName = sheetName /\ entry.date = customCompareDate[1]))
            ELSE None
        compare ==
            IF customEntry # None /\ customEntry[1].date # <<>> THEN customEntry
            ELSE IF Len(sorted) >= 2 THEN Some(sorted[2])
            ELSE None
    IN  IF profileError THEN None
        ELSE IF Len(sorted) < 1 THEN None
        ELSE IF compare = None THEN None
        ELSE IF columnToAnalyze = 0
             THEN Some([change |-> DeltaChange(sorted[1].count, compare[1].count)])
        ELSE Some([change |-> DeltaChange(sorted[1].count, compare[1].count),
                   columnChanges |-> analyzeColumnChanges(sheetData, columnToAnalyze,
                                         compare[1].date, sorted[1].date)])

calculateDeltaWithCustomDate(counts, sheetName, customDate) ==
    LET sorted == sortedEntries(counts, sheetName)
        customDateEntry ==
            IF Given(customDate)
            THEN Found(SelectSeq(counts, LAMBDA entry:
                     entry.sheetName = sheetName /\ entry.date = customDate[1]))
            ELSE None
    IN  IF Len(sorted) < 1 THEN None
        ELSE IF Given(customDate)
             THEN IF customDateEntry # None
                  THEN Some(DeltaChange(sorted[1].count, customDateEntry[1].count))
                  ELSE None
        ELSE IF Len(sorted) >= 2 THEN Some(DeltaChange(sorted[1].count, sorted[2].count))
        ELSE None

\* entry counts of sheet "A" on three days around a change of the tens digit, and
\* one entry of another sheet
DeltaEntries ==
    [date : {Format(9), Format(10), Format(11)}, count : {0, 2, 5}, sheetName : {"A"}]
        \cup {[date |-> Format(10), count |-> 4, sheetName |-> "B"]}

\* an aggregate holds at most one entry count per sheet and day
DistinctDays(counts) ==
    \A i, j \in 1..Len(counts) :
        (i # j /\ counts[i].sheetName = counts[j].sheetName)
            => counts[i].date # counts[j].date

DeltaSheetData ==
    << [date |-> Format(10), values |-> <<<<97>>>>, matchesFilters |-> TRUE],
       [date |-> Format(11), values |-> <<<<98>>>>, matchesFilters |-> TRUE] >>

InitDelta ==
    /\ fn = "none"
    /\ arg \in {a \in [entryCounts : SeqsUpTo(DeltaEntries, MaxEntries),
                       sheetName : {"A"},
                       customCompareDate : {None, Some(<<>>), Some(Format(8)), Some(Format(9)),
                                            Some(Format(10))},
                       columnToAnalyze : {0, 1},
                       profileError : BOOLEAN] :
                  /\ DistinctDays(a.entryCounts)
                  /\ a.profileError => a.columnToAnalyze = 0}
    /\ ret = None
    /\ Unmounted

CallCalculateDelta ==
    /\ fn = "none"
    /\ "entryCounts" \in DOMAIN arg
    /\ fn' = "calculateDelta"
    /\ ret' = calculateDelta(arg.entryCounts, arg.sheetName)
    /\ UNCHANGED <<arg, component, editor>>

CallGetDeltaDetails ==
    /\ fn = "none"
    /\ "entryCounts" \in DOMAIN arg
    /\ fn' = "getDeltaDetails"
    /\ ret' = getDeltaDetails(arg.entryCounts, arg.sheetName, DeltaSheetData,
                  arg.columnToAnalyze, arg.customCompareDate, arg.profileError)
    /\ UNCHANGED <<arg, component, editor>>

CallCalculateDeltaWithCustomDate ==
    /\ fn = "none"
    /\ "entryCounts" \in DOMAIN arg
    /\ fn' = "calculateDeltaWithCustomDate"
    /\ ret' = calculateDeltaWithCustomDate(arg.entryCounts, arg.sheetName,
                  arg.customCompareDate)
    /\ UNCHANGED <<arg, component, editor>>

NextDelta ==
    \/ CallCalculateDelta
    \/ CallGetDeltaDetails
    \/ CallCalculateDeltaWithCustomDate

SpecDelta == InitDelta /\ [][NextDelta]_vars

----------------------------------------------------------------------------
(* C2, C3: the delta functions *)

\* the day number a rendered date stands for
DayOf(date) == (date[1] - 48) * 10 + (date[2] - 48)

\* the entry counts the aggregate holds for the sheet
EntriesOfSheet(counts, sheetName) ==
    {counts[i] : i \in {j \in 1..Len(counts) : counts[j].sheetName = sheetName}}

\* the entry of the sheet with exactly k later entries (k = 0: today, the
\* greatest date; k = 1: the second most recent)
NthLatest(counts, sheetName, k) ==
    LET es == EntriesOfSheet(counts, sheetName)
    IN  CHOOSE e \in es :
            Cardinality({l \in es : DayOf(l.date) > DayOf(e.date)}) = k

DeltaFns == {"calculateDelta", "getDeltaDetails", "calculateDeltaWithCustomDate"}

\* the DeltaChange of a result
DeltaOf(f, r) == IF f = "getDeltaDetails" THEN r[1].change ELSE r[1]

\* C2: every delta computation returns absent when the sheet has 0 or 1 entry
\* counts, whatever the custom comparison date, and with 2 or more entries a
\* non-null result whose change is today.count minus the comparison count, today
\* being the entry with the greatest date (profiles without an error sentinel).
C2_DeltaByEntryNumber ==
    (fn \in DeltaFns /\ ~arg.profileError) =>
        LET n == Cardinality(EntriesOfSheet(arg.entryCounts, arg.sheetName))
        IN  /\ n <= 1 => ret = None
            /\ n >= 2 =>
                /\ ret # None
                /\ DeltaOf(fn, ret).today = NthLatest(arg.entryCounts, arg.sheetName, 0).count
                /\ DeltaOf(fn, ret).change = DeltaOf(fn, ret).today - DeltaOf(fn, ret).yesterday

\* C3: with a custom date given, the comparison day is the entry of that exact
\* date when the sheet has one; otherwise the second most recent entry when the
\* sheet has at least two entries; otherwise the delta is absent.  For
\* getDeltaDetails and calculateDeltaWithCustomDate alike.
C3_ComparisonDay ==
    (/\ fn \in {"getDeltaDetails", "calculateDeltaWithCustomDate"}
     /\ Given(arg.customCompareDate)
     /\ ~arg.profileError) =>
        LET es == EntriesOfSheet(arg.entryCounts, arg.sheetName)
            custom == {e \in es : e.date = arg.customCompareDate[1]}
        IN  IF custom # {}
            THEN ret # None /\ \E e \in custom : DeltaOf(fn, ret).yesterday = e.count
            ELSE IF Cardinality(es) >= 2
            THEN /\ ret # None
                 /\ DeltaOf(fn, ret).yesterday = NthLatest(arg.entryCounts, arg.sheetName, 1).count
            ELSE ret = None

----------------------------------------------------------------------------
(* DayBucketAggregator: countEntriesPerDay *)

\* the loop bound of countEntriesPerDay: the last 7 days
WindowDays == 7

\* subDays(today, i)
subDays(day, i) == day - i

\* sheetData.filter(row => row.matchesFilters && row.date.split(' ')[0] === formattedDate)
dailyEntries(sheetData, formattedDate) ==
    SelectSeq(sheetData, LAMBDA row:
        IF ~row.matchesFilters THEN FALSE ELSE DatePart(row.date) = formattedDate)

countEntriesPerDay_skipEmpty(sheetData, sheetName, now) ==
    SelectSeq([k \in 1..WindowDays |->
                  [date |-> Format(subDays(now, k - 1)),
                   count |-> Len(dailyEntries(sheetData, Format(subDays(now, k - 1)))),
                   sheetName |-> sheetName]],
              LAMBDA c: c.count > 0)

countEntriesPerDay_unfiltered(sheetData, sheetName, now) ==
    [k \in 1..WindowDays |->
        [date |-> Format(subDays(now, k - 1)),
         count |-> Len(SelectSeq(sheetData, LAMBDA row:
                          DatePart(row.date) = Format(subDays(now, k - 1)))),
         sheetName |-> sheetName]]

\* now is new Date() at the time of the call; iteration i = k - 1 of the loop
\* pushes the k-th entry
countEntriesPerDay(sheetData, sheetName, now) ==
    [k \in 1..WindowDays |->
        [date |-> Format(subDays(now, k - 1)),
         count |-> Len(dailyEntries(sheetData, Format(subDays(now, k - 1)))),
         sheetName |-> sheetName]]

\* rows inside and outside the window of the days 12 and 13, with a time of day,
\* with an empty and with an unparseable date, and rows the filters reject
CountRows ==
    { [date |-> Format(12), values |-> <<>>, matchesFilters |-> TRUE],
      [date |-> Format(12) \o <<32, 50, 58, 56>>, values |-> <<>>, matchesFilters |-> TRUE],
      [date |-> Format(12), values |-> <<>>, matchesFilters |-> FALSE],
      [date |-> Format(9), values |-> <<>>, matchesFilters |-> TRUE],
      [date |-> Format(13), values |-> <<>>, matchesFilters |-> TRUE],
      [date |-> Format(6), values |-> <<>>, matchesFilters |-> TRUE],
      [date |-> Format(5), values |-> <<>>, matchesFilters |-> TRUE],
      [date |-> <<>>, values |-> <<>>, matchesFilters |-> TRUE],
      [date |-> <<110, 47, 97>>, values |-> <<>>, matchesFilters |-> TRUE],
      [date |-> <<32>> \o Format(12), values |-> <<>>, matchesFilters |-> TRUE] }

InitCount ==
    /\ fn = "none"
    /\ arg \in [sheetData : SeqsUpTo(CountRows, MaxRows),
                sheetName : {"A", "B"},
                today : {12, 13}]
    /\ ret = None
    /\ Unmounted

CallCountEntriesPerDay ==
    /\ fn = "none"
    /\ "today" \in DOMAIN arg
    /\ fn' = "countEntriesPerDay"
    /\ ret' = countEntriesPerDay(arg.sheetData, arg.sheetName, arg.today)
    /\ UNCHANGED <<arg, component, editor>>

SpecCount == InitCount /\ [][CallCountEntriesPerDay]_vars

\* C4: countEntriesPerDay returns exactly 7 entries, one for each of the 7 days
\* ending today, with pairwise distinct dates, from the most recent to the
\* oldest, each tagged with the sheet name and with a count >= 0.
C4_SevenDays ==
    fn = "countEntriesPerDay" =>
        /\ Len(ret) = 7
        /\ {DayOf(ret[k].date) : k \in 1..Len(ret)} = (arg.today - 6)..arg.today
        /\ \A k, l \in 1..Len(ret) : k # l => ret[k].date # ret[l].date
        /\ \A k \in 1..(Len(ret) - 1) :
              /\ DayOf(ret[k].date) > DayOf(ret[k + 1].date)
              /\ LocaleCompare(ret[k].date, ret[k + 1].date) > 0
        /\ \A k \in 1..Len(ret) :
              /\ Len(ret[k].date) = 2
              /\ ret[k].sheetName = arg.sheetName
              /\ ret[k].count \in Nat

\* three rows, none of which falls into a bucket: an empty date, an unparseable
\* date and a day before the window
C4_Witness ==
    /\ fn = "countEntriesPerDay"
    /\ Len(arg.sheetData) = 3
    /\ \E i \in 1..3 : arg.sheetData[i].date = <<>>
    /\ \E i \in 1..3 : arg.sheetData[i].date = <<110, 47, 97>>
    /\ \E i \in 1..3 : arg.sheetData[i].date = Format(5)
    /\ \A k \in 1..Len(ret) : ret[k].count = 0

RECURSIVE SumCounts(_)
SumCounts(counts) ==
    IF counts = <<>> THEN 0 ELSE Head(counts).count + SumCounts(Tail(counts))

\* C5: the count of a bucket is the number of rows that match the filters and
\* whose date before the first space is the bucket's date; the other rows count
\* nowhere, so the counts sum to at most the number of matching rows.
C5_BucketCounts ==
    fn = "countEntriesPerDay" =>
        LET rows == arg.sheetData
            matching == {i \in 1..Len(rows) : rows[i].matchesFilters}
        IN  /\ \A k \in 1..Len(ret) :
                  ret[k].count =
                      Cardinality({i \in matching :
                          BeforeFirstSpace(rows[i].date) = ret[k].date})
            /\ SumCounts(ret) <= Cardinality(matching)
            /\ SumCounts(ret) =
                  Cardinality({i \in matching : \E k \in 1..Len(ret) :
                      BeforeFirstSpace(rows[i].date) = ret[k].date})

\* two rows of today, one with a time of day, counted beside a row the filters
\* reject
C5_Witness ==
    /\ fn = "countEntriesPerDay"
    /\ ret[1].count = 2
    /\ \E i \in 1..Len(arg.sheetData) : Len(arg.sheetData[i].date) > 2
    /\ \E i \in 1..Len(arg.sheetData) : ~arg.sheetData[i].matchesFilters

----------------------------------------------------------------------------
(* FilterEvaluator and RowParser: applyFilter, applyFilters, fetchSheetData *)

\* String.prototype.toLowerCase
toLowerCase(s) == [i \in 1..Len(s) |-> IF s[i] \in 65..90 THEN s[i] + 32 ELSE s[i]]

\* String.prototype.startsWith / endsWith / includes
startsWith(s, t) == Len(t) <= Len(s) /\ SubSeq(s, 1, Len(t)) = t

endsWith(s, t) == Len(t) <= Len(s) /\ SubSeq(s, Len(s) - Len(t) + 1, Len(s)) = t

RECURSIVE includes(_, _)
includes(s, t) ==
    IF startsWith(s, t) THEN TRUE
    ELSE IF s = <<>> THEN FALSE
    ELSE includes(Tail(s), t)

applyFilter(value, filter) ==
    CASE filter.operator = "equals" -> toLowerCase(value) = toLowerCase(filter.value)
      [] filter.operator = "contains" -> includes(toLowerCase(value), toLowerCase(filter.value))
      [] filter.operator = "startsWith" -> startsWith(toLowerCase(value), toLowerCase(filter.value))
      [] filter.operator = "endsWith" -> endsWith(toLowerCase(value), toLowerCase(filter.value))
      [] OTHER -> TRUE

\* row[filter.column - 1] || ''
cellOr(row, filter) ==
    LET cell == At(row, filter.column - 1)
    IN  IF cell = None THEN <<>> ELSE cell[1]

\* Array.prototype.every / some, given the outcomes of the test in array order
RECURSIVE every(_)
every(outcomes) ==
    IF outcomes = <<>> THEN TRUE
    ELSE IF ~Head(outcomes) THEN FALSE
    ELSE every(Tail(outcomes))

RECURSIVE some(_)
some(outcomes) ==
    IF outcomes = <<>> THEN FALSE
    ELSE IF Head(outcomes) THEN TRUE
    ELSE some(Tail(outcomes))

groupHolds(row, group) ==
    LET outcomes == [i \in 1..Len(group.filters) |->
                        applyFilter(cellOr(row, group.filters[i]), group.filters[i])]
    IN  IF group.logicalOperator = "AND" THEN every(outcomes) ELSE some(outcomes)

applyFilters_anyGroup(row, filterGroups) ==
    IF filterGroups = None \/ filterGroups[1] = <<>> THEN TRUE
    ELSE some([k \in 1..Len(filterGroups[1]) |-> groupHolds(row, filterGroups[1][k])])

\* filterGroups is optional: None when the profile has none
applyFilters(row, filterGroups) ==
    IF filterGroups = None \/ filterGroups[1] = <<>> THEN TRUE
    ELSE every([k \in 1..Len(filterGroups[1]) |-> groupHolds(row, filterGroups[1][k])])

\* a removal of the last element whatever the start
splice1_last(values, start) ==
    IF values = <<>> THEN << <<>>, <<>> >>
    ELSE << <<values[Len(values)]>>, SubSeq(values, 1, Len(values) - 1) >>

\* values.splice(start, 1): <<the removed elements, what is left>>
splice1(values, start) ==
    LET len == Len(values)
        from == IF start < 0 THEN (IF len + start < 0 THEN 0 ELSE len + start)
                ELSE IF start > len THEN len ELSE start
        n == IF len - from < 1 THEN len - from ELSE 1
    IN  << SubSeq(values, from + 1, from + n),
           SubSeq(values, 1, from) \o SubSeq(values, from + n + 1, len) >>

parseRow_filterValues(row, index, dateColumnIndex, filterGroups) ==
    IF ~row.isArray
    THEN [date |-> <<>>, values |-> <<>>, rowIndex |-> index + 1, matchesFilters |-> FALSE]
    ELSE LET cut == IF Len(row.cells) > dateColumnIndex
                    THEN splice1(row.cells, dateColumnIndex)
                    ELSE << <<>>, row.cells >>
         IN  [date |-> IF cut[1] = <<>> THEN <<>> ELSE cut[1][1],
              values |-> cut[2],
              rowIndex |-> index + 1,
              matchesFilters |-> applyFilters(cut[2], filterGroups)]

\* the callback of rows.map in fetchSheetData; a row is [isArray, cells], cells
\* being meaningful for an array only
parseRow(row, index, dateColumnIndex, filterGroups) ==
    IF ~row.isArray
    THEN [date |-> <<>>, values |-> <<>>, rowIndex |-> index + 1, matchesFilters |-> FALSE]
    ELSE LET cut == IF Len(row.cells) > dateColumnIndex
                    THEN splice1(row.cells, dateColumnIndex)
                    ELSE << <<>>, row.cells >>
         IN  [date |-> IF cut[1] = <<>> THEN <<>> ELSE cut[1][1],
              values |-> cut[2],
              rowIndex |-> index + 1,
              matchesFilters |-> applyFilters(row.cells, filterGroups)]

\* rows.map over the well-formed rows only
mapRows_skipMalformed(rows, dateColumnIndex, filterGroups) ==
    LET proper == SelectSeq(rows, LAMBDA row: row.isArray)
    IN  [r \in 1..Len(proper) |->
            parseRow(proper[r], r - 1, dateColumnIndex, filterGroups)]

\* return rows.map((row, index) => ...) of fetchSheetData
mapRows(rows, dateColumnIndex, filterGroups) ==
    [r \in 1..Len(rows) |-> parseRow(rows[r], r - 1, dateColumnIndex, filterGroups)]

\* "YES", "yes", "No", "oui" and the empty cell
FilterCells == {<<89, 69, 83>>, <<121, 101, 115>>, <<78, 111>>, <<111, 117, 105>>, <<>>}

FilterOperators == {"equals", "contains", "startsWith", "endsWith"}

\* every operator on the columns 1..3 with the values "yes", "ES", "Y", "s" and ""
FilterConfigs ==
    [column : 1..3,
     value : {<<121, 101, 115>>, <<69, 83>>, <<89>>, <<115>>, <<>>},
     operator : FilterOperators]

Flt(c, v, o) == [column |-> c, value |-> v, operator |-> o]

\* groups of both kinds, with no, one and two filters
FilterGroupKinds ==
    { [filters |-> <<>>, logicalOperator |-> "AND"],
      [filters |-> <<>>, logicalOperator |-> "OR"],
      [filters |-> <<Flt(1, <<121, 101, 115>>, "equals")>>, logicalOperator |-> "AND"],
      [filters |-> <<Flt(2, <<78>>, "startsWith"), Flt(1, <<69, 83>>, "endsWith")>>,
       logicalOperator |-> "AND"],
      [filters |-> <<Flt(2, <<79>>, "contains"), Flt(3, <<>>, "equals")>>,
       logicalOperator |-> "AND"],
      [filters |-> <<Flt(2, <<121>>, "startsWith"), Flt(1, <<111, 117>>, "contains")>>,
       logicalOperator |-> "OR"],
      [filters |-> <<Flt(3, <<115>>, "endsWith"), Flt(2, <<110, 111>>, "equals")>>,
       logicalOperator |-> "OR"] }

\* raw rows of 0 to 3 cells, and a row that is no array
FilterRows ==
    { <<>>, << <<89, 69, 83>> >>, << <<111, 117, 105>>, <<78, 111>> >>,
      << <<121, 101, 115>>, <<78, 111>> >>, << <<78, 111>>, <<121, 101, 115>>, <<89, 69, 83>> >>,
      << <<89, 101, 83>>, <<>>, <<121, 101, 115>> >> }

InitFilter ==
    /\ fn = "none"
    /\ arg \in [value : FilterCells, filter : FilterConfigs]
          \cup [row : FilterRows,
                isArray : BOOLEAN,
                dateColumnIndex : -1..2,
                filterGroups : {None} \cup {Some(g) : g \in SeqsUpTo(FilterGroupKinds, MaxGroups)}]
    /\ ret = None
    /\ Unmounted

CallApplyFilter ==
    /\ fn = "none"
    /\ "filter" \in DOMAIN arg
    /\ fn' = "applyFilter"
    /\ ret' = applyFilter(arg.value, arg.filter)
    /\ UNCHANGED <<arg, component, editor>>

CallApplyFilters ==
    /\ fn = "none"
    /\ "filterGroups" \in DOMAIN arg
    /\ arg.isArray
    /\ fn' = "applyFilters"
    /\ ret' = applyFilters(arg.row, arg.filterGroups)
    /\ UNCHANGED <<arg, component, editor>>

CallParseRow ==
    /\ fn = "none"
    /\ "filterGroups" \in DOMAIN arg
    /\ fn' = "parseRow"
    /\ ret' = parseRow([isArray |-> arg.isArray, cells |-> arg.row], 0,
                  arg.dateColumnIndex, arg.filterGroups)
    /\ UNCHANGED <<arg, component, editor>>

NextFilter ==
    \/ CallApplyFilter
    \/ CallApplyFilters
    \/ CallParseRow

SpecFilter == InitFilter /\ [][NextFilter]_vars

----------------------------------------------------------------------------
(* C6, C7: filter evaluation *)

\* the groups of an optional group list (none when absent)
GroupsOf(filterGroups) == IF filterGroups = None THEN <<>> ELSE filterGroups[1]

\* C6: applyFilters is true iff every group is satisfied, an AND group by all
\* of its filters and an OR group by at least one of them; an empty or absent
\* group list makes every row match.
C6_GroupsConjoined ==
    fn = "applyFilters" =>
        LET groups == GroupsOf(arg.filterGroups)
            Holds(f) == applyFilter(cellOr(arg.row, f), f)
            Satisfied(g) ==
                IF g.logicalOperator = "AND"
                THEN \A i \in 1..Len(g.filters) : Holds(g.filters[i])
                ELSE \E i \in 1..Len(g.filters) : Holds(g.filters[i])
        IN  /\ ret <=> \A k \in 1..Len(groups) : Satisfied(groups[k])
            /\ groups = <<>> => ret

\* an AND group and an OR group, the row satisfying the first and not the second
C6_Witness ==
    /\ fn = "applyFilters"
    /\ arg.filterGroups # None
    /\ Len(arg.filterGroups[1]) = 2
    /\ arg.filterGroups[1][1].logicalOperator = "AND"
    /\ Len(arg.filterGroups[1][1].filters) = 2
    /\ groupHolds(arg.row, arg.filterGroups[1][1])
    /\ arg.filterGroups[1][2].logicalOperator = "OR"
    /\ Len(arg.filterGroups[1][2].filters) = 2
    /\ ~ret

\* the letter of a character code, whatever its case
Letter(c) == IF c \in 97..122 THEN c - 32 ELSE c

\* a and b are the same text up to the case of the letters
SameText(a, b) ==
    Len(a) = Len(b) /\ \A i \in 1..Len(a) : Letter(a[i]) = Letter(b[i])

\* the filter holds on the cell, letter case ignored on both sides
HoldsIgnoringCase(cell, f) ==
    LET n == Len(f.value)
        At1(k) == SubSeq(cell, k, k + n - 1)
    IN  CASE f.operator = "equals" -> SameText(cell, f.value)
          [] f.operator = "contains" ->
                \E k \in 1..(Len(cell) - n + 1) : SameText(At1(k), f.value)
          [] f.operator = "startsWith" -> n <= Len(cell) /\ SameText(At1(1), f.value)
          [] f.operator = "endsWith" ->
                n <= Len(cell) /\ SameText(At1(Len(cell) - n + 1), f.value)

\* cell number column (from 1) of the row as fetched; empty when there is none
RawCell(row, column) == IF column \in 1..Len(row) THEN row[column] ELSE <<>>

\* C7: a filter is evaluated on cell filter.column - 1 of the row as fetched (the
\* date column still present), a missing cell being the empty string, and the
\* comparison ignores letter case on both sides; matchesFilters of the parsed
\* row is the result of this evaluation.
C7_RawRowIgnoringCase ==
    /\ fn = "applyFilter" => (ret <=> HoldsIgnoringCase(arg.value, arg.filter))
    /\ (fn = "parseRow" /\ arg.isArray) =>
        LET groups == GroupsOf(arg.filterGroups)
            Holds(f) == HoldsIgnoringCase(RawCell(arg.row, f.column), f)
        IN  ret.matchesFilters <=>
                \A k \in 1..Len(groups) :
                    IF groups[k].logicalOperator = "AND"
                    THEN \A i \in 1..Len(groups[k].filters) : Holds(groups[k].filters[i])
                    ELSE \E i \in 1..Len(groups[k].filters) : Holds(groups[k].filters[i])

\* a row that matches through cells of another case behind the date column,
\* which the values left after the removal of the date would not match
C7_Witness ==
    /\ fn = "parseRow"
    /\ arg.isArray
    /\ arg.dateColumnIndex = 0
    /\ arg.filterGroups # None /\ arg.filterGroups[1] # <<>>
    /\ ret.matchesFilters
    /\ ~applyFilters(ret.values, arg.filterGroups)
    /\ \E c \in 1..Len(arg.row) : arg.row[c] # toLowerCase(arg.row[c])

----------------------------------------------------------------------------
(* C15, C16: the date column of a parsed row *)

\* C15: the values of the parsed row of a well-formed row are one shorter than
\* the row, for every date column index: the date cell is removed and the other
\* cells are kept in order.
C15_ValuesLength ==
    (fn = "parseRow" /\ arg.isArray) =>
        /\ Len(ret.values) = Len(arg.row) - 1
        /\ \A j \in 1..Len(ret.values) :
              ret.values[j] = arg.row[IF j <= arg.dateColumnIndex THEN j ELSE j + 1]

\* C15 for a date column index within the row: the date is the cell at the
\* index, the values are the row without that cell, in order
C15_DateCellRemoved ==
    (fn = "parseRow" /\ arg.isArray /\ arg.dateColumnIndex \in 0..(Len(arg.row) - 1)) =>
        /\ ret.date = arg.row[arg.dateColumnIndex + 1]
        /\ Len(ret.values) = Len(arg.row) - 1
        /\ \A j \in 1..Len(ret.values) :
              ret.values[j] = arg.row[IF j <= arg.dateColumnIndex THEN j ELSE j + 1]

\* the date is taken from the middle of a row of three cells
C15_Witness ==
    /\ fn = "parseRow"
    /\ arg.isArray
    /\ Len(arg.row) = 3
    /\ arg.dateColumnIndex = 1
    /\ ret.date = arg.row[2]
    /\ ret.values = <<arg.row[1], arg.row[3]>>
    /\ arg.row[1] # arg.row[3]

\* C16: for a date column index outside the row, at or beyond its length or
\* negative, the parsed row has an empty date and the whole row as values.
C16_OutOfBounds ==
    (/\ fn = "parseRow"
     /\ arg.isArray
     /\ (arg.dateColumnIndex >= Len(arg.row) \/ arg.dateColumnIndex < 0)) =>
        /\ ret.date = <<>>
        /\ ret.values = arg.row

----------------------------------------------------------------------------
(* C17: the rows of a fetch, malformed rows among them *)

\* a value that is no array, and rows of no, two and three cells
RawRows ==
    { [isArray |-> FALSE, cells |-> <<>>],
      [isArray |-> TRUE, cells |-> <<>>],
      [isArray |-> TRUE, cells |-> << Format(12), <<78, 111>> >>],
      [isArray |-> TRUE, cells |-> << Format(11), <<121, 101, 115>>, <<89, 69, 83>> >>] }

InitRows ==
    /\ fn = "none"
    /\ arg \in [rows : SeqsUpTo(RawRows, MaxRows),
                dateColumnIndex : {0, 1},
                groups : {None, Some(<< [filters |-> <<Flt(2, <<121, 101, 115>>, "equals")>>,
                                         logicalOperator |-> "AND"] >>)}]
    /\ ret = None
    /\ Unmounted

CallMapRows ==
    /\ fn = "none"
    /\ "rows" \in DOMAIN arg
    /\ fn' = "mapRows"
    /\ ret' = mapRows(arg.rows, arg.dateColumnIndex, arg.groups)
    /\ UNCHANGED <<arg, component, editor>>

SpecRows == InitRows /\ [][CallMapRows]_vars

\* the cells of the rows that are arrays, in order
RECURSIVE ProperCells(_)
ProperCells(rows) ==
    IF rows = <<>> THEN <<>>
    ELSE IF Head(rows).isArray THEN <<Head(rows).cells>> \o ProperCells(Tail(rows))
    ELSE ProperCells(Tail(rows))

\* the parsed rows at the positions of the rows that are arrays, in order,
\* without their rowIndex
RECURSIVE ProperParsed(_, _)
ProperParsed(rows, parsed) ==
    IF rows = <<>> THEN <<>>
    ELSE IF Head(rows).isArray
         THEN << [date |-> Head(parsed).date, values |-> Head(parsed).values,
                  matchesFilters |-> Head(parsed).matchesFilters] >>
                  \o ProperParsed(Tail(rows), Tail(parsed))
    ELSE ProperParsed(Tail(rows), Tail(parsed))

\* C17: the fetch returns one parsed row per fetched row, in order, with the
\* 1-based position as rowIndex; a row that is no array gives the degraded row
\* (empty date, no values, matching no filter) at its position, and the other
\* rows are parsed as they are without it: date, values and matchesFilters are
\* those of the fetch of the well-formed rows alone.
C17_MalformedRowKept ==
    fn = "mapRows" =>
        /\ Len(ret) = Len(arg.rows)
        /\ \A r \in 1..Len(ret) :
              /\ ret[r].rowIndex = r
              /\ ~arg.rows[r].isArray =>
                    /\ ret[r].date = <<>>
                    /\ ret[r].values = <<>>
                    /\ ~ret[r].matchesFilters
        /\ LET alone == mapRows([r \in 1..Len(ProperCells(arg.rows)) |->
                                    [isArray |-> TRUE, cells |-> ProperCells(arg.rows)[r]]],
                                arg.dateColumnIndex, arg.groups)
           IN  ProperParsed(arg.rows, ret) =
                   [r \in 1..Len(alone) |->
                       [date |-> alone[r].date, values |-> alone[r].values,
                        matchesFilters |-> alone[r].matchesFilters]]

\* a malformed row between two well-formed rows, the second of which matches
C17_Witness ==
    /\ fn = "mapRows"
    /\ Len(arg.rows) = 3
    /\ arg.rows[1].isArray
    /\ ~arg.rows[2].isArray
    /\ arg.rows[3].isArray
    /\ arg.groups # None
    /\ ret[2].values = <<>>
    /\ ret[3].rowIndex = 3
    /\ ret[3].matchesFilters
    /\ ~ret[1].matchesFilters
    /\ ret[3].values # <<>>

----------------------------------------------------------------------------
(* C20: fetchSheetData validates its parameters and the range before it
   touches the spreadsheet API *)

\* range.trim().replace(/\s+/g, '')
cleanRangeOf(range) == SelectSeq(Trim(range), LAMBDA ch : ~IsSpace(ch))

\* a validation that accepts a cell range without ':'
rangeDefect_anyCellRange(spreadsheetId, range) ==
    IF spreadsheetId = "" \/ range = <<>>
    THEN "Missing required parameters: spreadsheetId and range are required"
    ELSE LET cleanRange == cleanRangeOf(range)
             parts == Split(cleanRange, 33)
         IN  IF ~Includes(cleanRange, 33)
             THEN "Invalid range format: missing '!' separator. Range: "
             ELSE IF parts[1] = <<>> \/ parts[2] = <<>>
             THEN "Invalid range format: could not parse sheet name or cell range. Range: "
             ELSE ""

\* the checks at the head of fetchSheetData: the message of the error they
\* throw, "" when they throw none.  [sheetName, cellRange] are the first two
\* pieces of cleanRange.split('!').
rangeDefect(spreadsheetId, range) ==
    IF spreadsheetId = "" \/ range = <<>>
    THEN "Missing required parameters: spreadsheetId and range are required"
    ELSE LET cleanRange == cleanRangeOf(range)
             parts == Split(cleanRange, 33)
         IN  IF ~Includes(cleanRange, 33)
             THEN "Invalid range format: missing '!' separator. Range: "
             ELSE IF parts[1] = <<>> \/ parts[2] = <<>>
             THEN "Invalid range format: could not parse sheet name or cell range. Range: "
             ELSE IF ~Includes(parts[2], 58)
             THEN "Invalid range format: missing ':' in cell range. Range: "
             ELSE ""

\* the Error fetchSheetData rejects with: the outer catch prefixes the message
\* of whatever was thrown inside the try; detail is the interpolated ${range}
SheetError(prefix, text, detail) ==
    [prefix |-> prefix, text |-> text, detail |-> detail]

\* what the service account and the API may answer once the range is valid
ApiAnswers == {"rows", "initFailed", "denied", "notFound", "failed"}

\* fetchSheetData up to the response of the API: the error it rejects with, the
\* calls of initializeGoogleSheets and of sheets.spreadsheets.values.get it made,
\* and the range it asked for
fetchSheetDataCall(spreadsheetId, range, answer) ==
    LET defect == rangeDefect(spreadsheetId, range)
    IN  IF spreadsheetId = "" \/ range = <<>>
        THEN [error |-> Some(SheetError("", defect, <<>>)),
              initCalls |-> 0, requests |-> 0, requested |-> None]
        ELSE IF defect # ""
        THEN [error |-> Some(SheetError("Failed to fetch sheet data: ", defect, range)),
              initCalls |-> 0, requests |-> 0, requested |-> None]
        ELSE IF answer = "initFailed"
        THEN [error |-> Some(SheetError("Failed to fetch sheet data: ",
                                        "Failed to initialize Google Sheets client: ", <<>>)),
              initCalls |-> 1, requests |-> 0, requested |-> None]
        ELSE [error |->
                  CASE answer = "rows" -> None
                    [] answer = "denied" ->
                         Some(SheetError("Failed to fetch sheet data: ",
                                         "Access denied. Please check if the service account has access to this spreadsheet.",
                                         <<>>))
                    [] answer = "notFound" ->
                         Some(SheetError("Failed to fetch sheet data: ",
                                         "Spreadsheet not found. Please check the spreadsheet ID.",
                                         <<>>))
                    [] OTHER ->
                         Some(SheetError("Failed to fetch sheet data: ", "Unknown error", <<>>)),
              initCalls |-> 1, requests |-> 1,
              requested |-> Some(cleanRangeOf(range))]

\* the characters ranges are drawn from: ' ', '!', ':' and 'A'
RangeChars == {32, 33, 58, 65}

InitRange ==
    /\ fn = "none"
    /\ arg \in [spreadsheetId : {"", "s1"},
                range : SeqsUpTo(RangeChars, MaxRange)]
    /\ ret = None
    /\ Unmounted

CallFetchSheetData ==
    /\ fn = "none"
    /\ "range" \in DOMAIN arg
    /\ \E answer \in ApiAnswers :
           ret' = fetchSheetDataCall(arg.spreadsheetId, arg.range, answer)
    /\ fn' = "fetchSheetData"
    /\ UNCHANGED <<arg, component, editor>>

SpecRange == InitRange /\ [][CallFetchSheetData]_vars

\* the range with every whitespace character taken out
Stripped(range) == SelectSeq(range, LAMBDA ch : ch \notin {9, 10, 13, 32})

\* the position of the first '!' of a string that has one
FirstBang(str) ==
    CHOOSE i \in 1..Len(str) :
        str[i] = 33 /\ \A j \in 1..(i - 1) : str[j] # 33

NoSeparator(str) == \A i \in 1..Len(str) : str[i] # 33

EmptySheetName(str) == ~NoSeparator(str) /\ FirstBang(str) = 1

EmptyCellRange(str) == ~NoSeparator(str) /\ FirstBang(str) = Len(str)

CellRangeWithoutColon(str) ==
    ~NoSeparator(str) /\ \A i \in (FirstBang(str) + 1)..Len(str) : str[i] # 58

InvalidRange(str) ==
    \/ NoSeparator(str)
    \/ EmptySheetName(str)
    \/ EmptyCellRange(str)
    \/ CellRangeWithoutColon(str)

\* C20: a call of fetchSheetData whose spreadsheetId or range is empty, or whose
\* whitespace-stripped range has no '!', an empty sheet name, an empty cell
\* range or a cell range without ':', is rejected with one error that names the
\* defect, without a call of initializeGoogleSheets and without a request to
\* the API.
C20_InvalidRangeRejected ==
    (fn = "fetchSheetData" /\ "range" \in DOMAIN arg) =>
        LET str == Stripped(arg.range)
            missing == arg.spreadsheetId = "" \/ arg.range = <<>>
        IN  (missing \/ InvalidRange(str)) =>
                /\ ret.error # None
                /\ ret.initCalls = 0
                /\ ret.requests = 0
                /\ ret.requested = None
                /\ missing =>
                       ret.error[1].text =
                           "Missing required parameters: spreadsheetId and range are required"
                /\ (~missing /\ NoSeparator(str)) =>
                       /\ ret.error[1].text =
                              "Invalid range format: missing '!' separator. Range: "
                       /\ ret.error[1].detail = arg.range
                /\ (~missing /\ (EmptySheetName(str) \/ EmptyCellRange(str))) =>
                       /\ ret.error[1].text =
                              "Invalid range format: could not parse sheet name or cell range. Range: "
                       /\ ret.error[1].detail = arg.range
                /\ (~missing /\ ~NoSeparator(str)) =>
                       /\ ret.error[1].text \in
                              {"Invalid range format: could not parse sheet name or cell range. Range: ",
                               "Invalid range format: missing ':' in cell range. Range: "}
                       /\ ret.error[1].detail = arg.range

\* the range ' A!A', whose cell range has no ':', was rejected before the client
\* was initialised
C20_Witness ==
    /\ fn = "fetchSheetData"
    /\ "range" \in DOMAIN arg
    /\ arg.spreadsheetId = "s1"
    /\ arg.range = <<32, 65, 33, 65>>
    /\ ret.error # None
    /\ ret.error[1].text = "Invalid range format: missing ':' in cell range. Range: "
    /\ ret.initCalls = 0
    /\ ret.requests = 0

----------------------------------------------------------------------------
(* Comparison pass: compareData *)

IsDigits(s) == s # <<>> /\ \A i \in 1..Len(s) : s[i] \in 48..57

RECURSIVE DigitsValue(_)
DigitsValue(s) ==
    IF s = <<>> THEN 0 ELSE 10 * DigitsValue(SubSeq(s, 1, Len(s) - 1)) + (s[Len(s)] - 48)

\* A number of JavaScript is num/den in lowest terms with den > 0 when it is
\* finite (the rounding of floating point is left out), 1/0 for Infinity, -1/0
\* for -Infinity and 0/0 for NaN.
Num(n) == [num |-> n, den |-> 1]

NaN == [num |-> 0, den |-> 0]

Infinity == [num |-> 1, den |-> 0]

IsFinite(x) == x.den # 0

Sign(n) == IF n > 0 THEN 1 ELSE IF n < 0 THEN -1 ELSE 0

\* a - b
jsSub(a, b) ==
    IF a = NaN \/ b = NaN THEN NaN
    ELSE IF ~IsFinite(a) /\ ~IsFinite(b) THEN (IF a = b THEN NaN ELSE a)
    ELSE IF ~IsFinite(a) THEN a
    ELSE IF ~IsFinite(b) THEN [num |-> -b.num, den |-> 0]
    ELSE Frac(a.num * b.den - b.num * a.den, a.den * b.den)

\* a * b
jsMul(a, b) ==
    IF a = NaN \/ b = NaN THEN NaN
    ELSE IF ~IsFinite(a) \/ ~IsFinite(b) THEN [num |-> Sign(a.num) * Sign(b.num), den |-> 0]
    ELSE Frac(a.num * b.num, a.den * b.den)

\* a / b
jsDiv(a, b) ==
    IF a = NaN \/ b = NaN THEN NaN
    ELSE IF ~IsFinite(a) /\ ~IsFinite(b) THEN NaN
    ELSE IF ~IsFinite(a) THEN [num |-> Sign(a.num) * (IF b.num < 0 THEN -1 ELSE 1), den |-> 0]
    ELSE IF ~IsFinite(b) THEN Num(0)
    ELSE IF b.num = 0 THEN [num |-> Sign(a.num), den |-> 0]
    ELSE Frac(a.num * b.den * Sign(b.num), a.den * Abs(b.num))

\* "Infinity"
InfinityText == <<73, 110, 102, 105, 110, 105, 116, 121>>

\* Number(cell) of an optional cell, for the cells of the model: undefined is
\* NaN, blank text is 0, a decimal integer with or without sign is its value,
\* Infinity with or without sign is infinite, any other text is NaN
Number(cell) ==
    LET text == IF cell = None THEN <<>> ELSE Trim(cell[1])
        signed == text # <<>> /\ Head(text) \in {43, 45}
        digits == IF signed THEN Tail(text) ELSE text
        sign == IF signed /\ Head(text) = 45 THEN -1 ELSE 1
    IN  IF cell = None THEN NaN
        ELSE IF text = <<>> THEN Num(0)
        ELSE IF IsDigits(digits) THEN Num(sign * DigitsValue(digits))
        ELSE IF digits = InfinityText THEN [num |-> sign, den |-> 0]
        ELSE NaN

\* Number(cell) || 0: NaN and 0 are falsy
NumberOr0(cell) ==
    IF Number(cell) = NaN THEN Num(0) ELSE Number(cell)

\* the differences of row current against row previous, before
\* .filter(diff => diff.percentageChange !== 0)
differencesOf(previous, current) ==
    [index \in 1..Len(current.values) |->
        LET previousValue == NumberOr0(At(previous.values, index - 1))
            currentValue == NumberOr0(Some(current.values[index]))
        IN  [column |-> index,
             previous |-> previousValue,
             current |-> currentValue,
             percentageChange |->
                 IF previousValue = Num(0) THEN Num(0)
                 ELSE jsMul(jsDiv(jsSub(currentValue, previousValue), previousValue),
                            Num(100))]]

\* compareData without the two filters: every pair of rows, every column
compareData_keepAll(sheetData, sheetName) ==
    [i \in 1..(Len(sheetData) - 1) |->
        [sheetName |-> sheetName,
         date1 |-> sheetData[i].date,
         date2 |-> sheetData[i + 1].date,
         differences |-> differencesOf(sheetData[i], sheetData[i + 1])]]

\* sheetData is the list of the rows that match the filters
compareData(sheetData, sheetName) ==
    LET pairs == [i \in 1..(Len(sheetData) - 1) |->
                    [sheetName |-> sheetName,
                     date1 |-> sheetData[i].date,
                     date2 |-> sheetData[i + 1].date,
                     differences |->
                         SelectSeq(differencesOf(sheetData[i], sheetData[i + 1]),
                                   LAMBDA diff: diff.percentageChange # Num(0))]]
    IN  SelectSeq(pairs, LAMBDA result: Len(result.differences) > 0)

\* rows that match the filters, with one or two values: numbers, a word, blank
\* text and Infinity
CompareRows ==
    [date : {Format(12)},
     matchesFilters : {TRUE},
     values : { <<>>, << <<53>> >>, << <<55>> >>, << <<48>> >>, << <<45, 53>> >>,
                << InfinityText >>, << <<53>>, <<110, 111>> >>, << <<55>>, <<32>> >>,
                << <<110, 111>>, <<53>> >> }]

InitCompare ==
    /\ fn = "none"
    /\ arg \in [sheetData : SeqsUpTo(CompareRows, MaxRows), sheetName : {"A"}]
    /\ ret = None
    /\ Unmounted

CallCompareData ==
    /\ fn = "none"
    /\ "sheetData" \in DOMAIN arg
    /\ fn' = "compareData"
    /\ ret' = compareData(arg.sheetData, arg.sheetName)
    /\ UNCHANGED <<arg, component, editor>>

SpecCompare == InitCompare /\ [][CallCompareData]_vars

----------------------------------------------------------------------------
(* C18, C19: the comparison pass *)

\* the percentage of a delta result, if there is one
DeltaPercentages ==
    IF ret = None THEN {}
    ELSE IF fn = "getDeltaDetails" THEN {<<ret[1].change.yesterday, ret[1].change.percentageChange>>}
    ELSE {<<ret[1].yesterday, ret[1].percentageChange>>}

\* C18: every percentageChange is 0 when its denominator is 0 and is never NaN
\* or infinite: in a delta the denominator is the comparison count, in
\* compareData the previous value of the column, whatever the cells hold.
C18_PercentageFinite ==
    /\ fn \in {"calculateDelta", "getDeltaDetails", "calculateDeltaWithCustomDate"} =>
          \A p \in DeltaPercentages :
              /\ IsFinite(p[2])
              /\ p[1] = 0 => p[2].num = 0
    /\ fn = "compareData" =>
          /\ \A i \in 1..(Len(arg.sheetData) - 1) :
                LET diffs == differencesOf(arg.sheetData[i], arg.sheetData[i + 1])
                IN  \A d \in 1..Len(diffs) :
                        diffs[d].previous = Num(0) => diffs[d].percentageChange = Num(0)
          /\ \A r \in 1..Len(ret) :
                \A d \in 1..Len(ret[r].differences) :
                    IsFinite(ret[r].differences[d].percentageChange)

\* the value a cell is read as, for the claim: its decimal integer, and 0 for a
\* cell that is absent, blank or no number
ReadAs(cell) ==
    IF cell = None THEN 0
    ELSE LET text == Trim(cell[1])
         IN  IF IsDigits(text) THEN DigitsValue(text)
             ELSE IF Len(text) > 1 /\ Head(text) = 45 /\ IsDigits(Tail(text))
                  THEN 0 - DigitsValue(Tail(text))
             ELSE 0

\* the cell holds a finite number or no number
Plain(cell) == cell = None \/ Trim(cell[1]) # InfinityText

\* the difference is the one of column diff.column of the rows: a non-zero
\* percentage equal to (current - previous) / previous * 100
DifferenceOfPair(diff, previous, current) ==
    LET before == At(previous.values, diff.column - 1)
        now == At(current.values, diff.column - 1)
    IN  /\ diff.column \in 1..Len(current.values)
        /\ diff.percentageChange # Num(0)
        /\ (Plain(before) /\ Plain(now)) =>
              /\ diff.previous = Num(ReadAs(before))
              /\ diff.current = Num(ReadAs(now))
              /\ ReadAs(before) # 0
              /\ IsFinite(diff.percentageChange)
              /\ diff.percentageChange.num * ReadAs(before)
                    = (ReadAs(now) - ReadAs(before)) * 100 * diff.percentageChange.den

\* C19: the results of compareData are those of distinct adjacent pairs of rows,
\* in row order, at most one per pair; none has an empty list of differences, and
\* every difference has a non-zero percentage equal to (current - previous) /
\* previous * 100, cells that are no numbers being read as 0, the columns in order.
C19_AdjacentPairs ==
    fn = "compareData" =>
        \E pair \in [1..Len(ret) -> 1..Len(arg.sheetData)] :
            /\ \A r \in 1..Len(ret) :
                  /\ pair[r] < Len(arg.sheetData)
                  /\ r > 1 => pair[r - 1] < pair[r]
                  /\ ret[r].sheetName = arg.sheetName
                  /\ ret[r].date1 = arg.sheetData[pair[r]].date
                  /\ ret[r].date2 = arg.sheetData[pair[r] + 1].date
                  /\ ret[r].differences # <<>>
                  /\ \A d \in 1..Len(ret[r].differences) :
                        /\ d > 1 => ret[r].differences[d - 1].column
                                       < ret[r].differences[d].column
                        /\ DifferenceOfPair(ret[r].differences[d],
                                            arg.sheetData[pair[r]],
                                            arg.sheetData[pair[r] + 1])

\* three rows of which only the last pair differs, by a negative percentage
C19_Witness ==
    /\ fn = "compareData"
    /\ Len(arg.sheetData) = 3
    /\ Len(ret) = 1
    /\ arg.sheetData[1].values = arg.sheetData[2].values
    /\ Len(ret[1].differences) = 1
    /\ ret[1].differences[1].previous = Num(7)
    /\ ret[1].differences[1].current = Num(5)
    /\ ret[1].differences[1].percentageChange = Frac(0 - 200, 7)

----------------------------------------------------------------------------
(* The SheetComparison component: runAnalysis, refreshAllProfiles, fetchData,
   loadProfiles and the analytics document they write *)

\* const batchSize = 3
batchSize == 3

\* prev.filter(c => c.sheetName !== sheet.name) followed by the new results,
\* with nothing filtered out
mergeBySheet_append(prev, sheetName, results) == prev \o results

\* const filtered = prev.filter(c => c.sheetName !== sheet.name);
\* const updated = [...filtered, ...results];
mergeBySheet(prev, sheetName, results) ==
    SelectSeq(prev, LAMBDA c: c.sheetName # sheetName) \o results

\* parseInt of the dateColumn of a profile (a string of decimal digits)
parseInt(s) == DigitsValue(s)

\* the filterGroups query parameter: sent only for a non-empty list
queryFilterGroups(sheet) ==
    IF sheet.filterGroups # None /\ Len(sheet.filterGroups[1]) > 0
    THEN sheet.filterGroups
    ELSE None

\* GET /api/sheets: fetchSheetData(spreadsheetId, range, parseInt(dateColumn) - 1,
\* filterGroups) over the rows the spreadsheet holds
apiRows(sheet, rows) ==
    mapRows([r \in 1..Len(rows) |-> [isArray |-> TRUE, cells |-> rows[r]]],
            parseInt(sheet.dateColumn) - 1, queryFilterGroups(sheet))

\* profiles.slice(i, i + batchSize)
slice(list, i, j) ==
    SubSeq(list, i + 1, IF j < Len(list) THEN j ELSE Len(list))

\* the whole list taken as one batch
batchOf_whole(call) == call.all

batchOf(call) == slice(call.all, call.i, call.i + batchSize)

docIdsOf(list) == {list[j].docId : j \in 1..Len(list)}

\* the stored profiles: "A" takes every row, "B" the rows whose third column is yes
StoredProfiles ==
    << [docId |-> "d1", id |-> "s1", range |-> <<83, 33, 65, 49, 58, 67, 57>>, dateColumn |-> <<49>>,
        name |-> "A", filterGroups |-> None, lastRun |-> FALSE,
        analysisColumn |-> Some(<<49>>)],
       [docId |-> "d2", id |-> "s2", range |-> <<83, 33, 65, 49, 58, 67, 57>>, dateColumn |-> <<49>>,
        name |-> "B",
        filterGroups |-> Some(<< [filters |-> <<Flt(3, <<121, 101, 115>>, "equals")>>,
                                  logicalOperator |-> "AND"] >>),
        lastRun |-> FALSE,
        analysisColumn |-> Some(<<49>>)] >>

\* what a spreadsheet may hold when it is fetched: nothing; two rows of today
\* whose first value changes; two rows of yesterday and today that are equal
SheetContents ==
    { <<>>,
      << <<Format(12), <<53>>, <<121, 101, 115>>>>,
         <<Format(12) \o <<32, 49, 58, 48>>, <<55>>, <<110, 111>>>> >>,
      << <<Format(11), <<53>>, <<121, 101, 115>>>>,
         <<Format(12), <<53>>, <<121, 101, 115>>>> >> }

\* the spreadsheets "s1" and "s2" may hold any of the contents, every other
\* spreadsheet holds one row of today
contentsOf(sheet) ==
    IF sheet.id \in {"s1", "s2"}
    THEN SheetContents
    ELSE { << <<Format(12), <<53>>, <<121, 101, 115>>>> >> }

\* what GET /api/sheets can answer with rows for: nothing when fetchSheetData
\* rejects the profile's spreadsheet id or range
apiContents(sheet) ==
    IF rangeDefect(sheet.id, sheet.range) = "" THEN contentsOf(sheet) ELSE {}

\* for (const sheet of sheetsToAnalyze) { try {...} catch {...} finally {...} }
\* as if the catch were around the loop: a failed fetch ends it
endsLoop_onFailure(call, ok) == ~ok \/ call.k = Len(batchOf(call))

\* for (const sheet of sheetsToAnalyze) { try {...} catch {...} finally {...} }:
\* the loop ends after the last sheet of the batch, whether its fetch settled
\* with rows (ok) or failed
endsLoop(call, ok) == call.k = Len(batchOf(call))

\* a call: its position pc, the profiles it goes over (all), the offset i of the
\* batch and the position k in it, failedProfiles of the running fetchData, the
\* entryCounts and comparisons of the render it started from, and the fetches
\* settled so far, each with the day counts of the rows it brought
Idle ==
    [pc |-> "idle", kind |-> "", all |-> <<>>, i |-> 0, k |-> 0, failed |-> <<>>,
     entryCounts |-> <<>>, comparisons |-> <<>>, settled |-> <<>>]

Slots == 1..MaxCalls

IsFree(c) == calls[c].pc = "idle"

FreeSlot == CHOOSE c \in Slots : IsFree(c) /\ \A d \in Slots : IsFree(d) => c <= d

CanStart == nCalls < MaxCalls /\ \E c \in Slots : IsFree(c)

\* the analytics document found at mount: none, or the one left by an analysis
\* of "A" (when its first value changed) followed by an analysis of "B"
StoredAnalytics ==
    LET rowsA == apiRows(StoredProfiles[1],
                    << <<Format(12), <<53>>, <<121, 101, 115>>>>,
                       <<Format(12) \o <<32, 49, 58, 48>>, <<55>>, <<110, 111>>>> >>)
        rowsB == apiRows(StoredProfiles[2],
                    << <<Format(11), <<53>>, <<121, 101, 115>>>>,
                       <<Format(12), <<53>>, <<121, 101, 115>>>> >>)
    IN  { None,
          Some([entryCounts |-> countEntriesPerDay(rowsA, "A", 12)
                                    \o countEntriesPerDay(rowsB, "B", 12),
                comparisons |->
                    compareData(SelectSeq(rowsA, LAMBDA row: row.matchesFilters), "A")]) }

\* the component once loadInitialData has run: the profiles and the analytics
\* document of the store are in the state
Init ==
    /\ fn = "none"
    /\ arg = None
    /\ ret = None
    /\ analyticsDoc \in StoredAnalytics
    /\ dbLastRun = IF analyticsDoc = None THEN {} ELSE docIdsOf(StoredProfiles)
    /\ profiles = [j \in 1..Len(StoredProfiles) |->
                      [StoredProfiles[j] EXCEPT !.lastRun = analyticsDoc # None]]
    /\ entryCounts = IF analyticsDoc = None THEN <<>> ELSE analyticsDoc[1].entryCounts
    /\ comparisons = IF analyticsDoc = None THEN <<>> ELSE analyticsDoc[1].comparisons
    /\ sheetDataMap = <<>>
    /\ refreshing = <<>>
    /\ error = ""
    /\ loading = FALSE
    /\ today = 12
    /\ writes = <<>>
    /\ calls = [c \in Slots |-> Idle]
    /\ nCalls = 0
    /\ merged = NoMerge
    /\ fresh = <<>>
    /\ NotEditing

\* onClick={() => runAnalysis(profile)}, enabled while the profile is not being
\* refreshed; runs up to the await of profilesDB.update.  The invocation keeps
\* the entryCounts and comparisons of the render it was started from.
RunAnalysisClick(p) ==
    /\ CanStart
    /\ \A j \in 1..Len(refreshing) : refreshing[j] # profiles[p].docId
    /\ calls' = [calls EXCEPT ![FreeSlot] =
                    [pc |-> "update", kind |-> "run", all |-> <<profiles[p]>>,
                     i |-> 0, k |-> 0, failed |-> <<>>,
                     entryCounts |-> entryCounts, comparisons |-> comparisons,
                     settled |-> <<>>]]
    /\ nCalls' = nCalls + 1
    /\ UNCHANGED <<harness, editor, profiles, entryCounts, comparisons, sheetDataMap, refreshing,
                   error, loading, today, dbLastRun, analyticsDoc, writes, merged, fresh>>

\* onClick={refreshAllProfiles}, enabled while nothing is being refreshed; runs
\* up to the await of the first batch of profilesDB.update
RefreshAllClick ==
    /\ CanStart
    /\ refreshing = <<>>
    /\ refreshing' = [j \in 1..Len(profiles) |-> profiles[j].docId]
    /\ error' = ""
    /\ comparisons' = <<>>
    /\ entryCounts' = <<>>
    /\ fresh' = <<>>
    /\ calls' = [calls EXCEPT ![FreeSlot] =
                    [pc |-> IF Len(profiles) > 0 THEN "update" ELSE "load",
                     kind |-> "refresh", all |-> profiles,
                     i |-> 0, k |-> 0, failed |-> <<>>,
                     entryCounts |-> entryCounts, comparisons |-> comparisons,
                     settled |-> <<>>]]
    /\ loading' = IF Len(profiles) > 0 THEN loading ELSE TRUE
    /\ nCalls' = nCalls + 1
    /\ UNCHANGED <<harness, editor, profiles, sheetDataMap, today, dbLastRun, analyticsDoc,
                   writes, merged>>

\* the lastRun updates of the batch settle: all written, or one of them rejected
\* (profilesDB.update throws) after the updates in done were written.  When all
\* are written fetchData starts and runs up to the await of its first fetch.
UpdateDone(c) ==
    /\ calls[c].pc = "update"
    /\ \E done \in SUBSET docIdsOf(batchOf(calls[c])) :
        /\ dbLastRun' = dbLastRun \cup done
        /\ IF done = docIdsOf(batchOf(calls[c]))
           THEN /\ loading' = TRUE
                /\ error' = ""
                /\ refreshing' = Append(refreshing, batchOf(calls[c])[1].docId)
                /\ calls' = [calls EXCEPT ![c].pc = "fetch", ![c].k = 1,
                                          ![c].failed = <<>>]
           ELSE /\ error' = IF calls[c].kind = "run"
                            THEN "Failed to run analysis"
                            ELSE "Failed to refresh all profiles"
                /\ refreshing' = IF calls[c].kind = "run" THEN refreshing ELSE <<>>
                /\ calls' = [calls EXCEPT ![c] = Idle]
                /\ UNCHANGED loading
    /\ UNCHANGED <<harness, editor, profiles, entryCounts, comparisons, sheetDataMap, today,
                   analyticsDoc, writes, nCalls, merged, fresh>>

\* `Failed to refresh data for ${failedProfiles.length} profile(s). ...`
failedSummary(n) == "Failed to refresh data for " \o ToString(n) \o " profile(s)"

\* The fetch of the sheet fetchData is waiting for settles, with the rows the
\* spreadsheet holds or with a failure; the body of the loop runs to its end,
\* then either the next fetch is started, or fetchData returns and its caller
\* goes on up to its next await (the updates of the next batch, or loadProfiles).
\* Each updater sends the aggregate to saveAnalytics with the other field as
\* the invocation's render had it.
FetchDone(c) ==
    /\ calls[c].pc = "fetch"
    /\ \E outcome \in {None} \cup {Some(rows) : rows \in apiContents(batchOf(calls[c])[calls[c].k])} :
        LET call == calls[c]
            batch == batchOf(call)
            sheet == batch[call.k]
            ok == outcome # None
            sheetData == IF ok THEN apiRows(sheet, outcome[1]) ELSE <<>>
            sheetComparisons ==
                compareData(SelectSeq(sheetData, LAMBDA row: row.matchesFilters),
                            sheet.name)
            sheetEntryCounts == countEntriesPerDay(sheetData, sheet.name, today)
            fetched == Append(call.settled,
                              [docId |-> sheet.docId, ok |-> ok,
                               entryCounts |-> IF ok THEN sheetEntryCounts ELSE <<>>])
            updatedComparisons == mergeBySheet(comparisons, sheet.name, sheetComparisons)
            updatedEntryCounts == mergeBySheet(entryCounts, sheet.name, sheetEntryCounts)
            failedProfiles == IF ok THEN call.failed ELSE Append(call.failed, sheet.docId)
            settled == SelectSeq(refreshing, LAMBDA id: id # sheet.docId)
            lastOfBatch == endsLoop(call, ok)
            moreBatches == call.kind = "refresh" /\ call.i + batchSize < Len(call.all)
        IN  /\ IF ok
               THEN /\ sheetDataMap' =
                           (sheet.name :> [error |-> FALSE, rows |-> sheetData])
                               @@ sheetDataMap
                    /\ comparisons' = updatedComparisons
                    /\ entryCounts' = updatedEntryCounts
                    /\ writes' = writes \o
                           << [entryCounts |-> call.entryCounts,
                               comparisons |-> updatedComparisons],
                              [entryCounts |-> updatedEntryCounts,
                               comparisons |-> call.comparisons] >>
                    /\ merged' =
                           [n |-> 1 - merged.n,
                            sheetName |-> sheet.name,
                            entryCounts |-> sheetEntryCounts,
                            comparisons |-> sheetComparisons,
                            replaced |-> \E j \in 1..Len(entryCounts) :
                                            entryCounts[j].sheetName = sheet.name,
                            kept |-> \E j \in 1..Len(entryCounts) :
                                            entryCounts[j].sheetName # sheet.name]
                    /\ fresh' =
                           (sheet.name :> [entryCounts |-> sheetEntryCounts,
                                           comparisons |-> sheetComparisons])
                               @@ fresh
               ELSE /\ sheetDataMap' =
                           (sheet.name :> [error |-> TRUE, rows |-> <<>>])
                               @@ sheetDataMap
                    /\ UNCHANGED <<comparisons, entryCounts, writes, merged, fresh>>
            /\ IF ~lastOfBatch
               THEN /\ refreshing' = Append(settled, batch[call.k + 1].docId)
                    /\ calls' = [calls EXCEPT ![c].k = call.k + 1,
                                              ![c].failed = failedProfiles,
                                              ![c].settled = fetched]
                    /\ UNCHANGED <<error, loading>>
               ELSE /\ refreshing' = settled
                    /\ error' = IF Len(failedProfiles) > 0
                                THEN failedSummary(Len(failedProfiles))
                                ELSE error
                    /\ loading' = ~moreBatches
                    /\ calls' = [calls EXCEPT
                                    ![c].pc = IF moreBatches THEN "update" ELSE "load",
                                    ![c].i = IF moreBatches THEN call.i + batchSize
                                             ELSE call.i,
                                    ![c].failed = failedProfiles,
                                    ![c].settled = fetched]
    /\ UNCHANGED <<harness, editor, profiles, today, dbLastRun, analyticsDoc, nCalls>>

\* profilesDB.getAll settles inside loadProfiles: the stored profiles, with the
\* lastRun the store holds, replace the list, or the load fails; then the caller
\* returns, refreshAllProfiles through its finally.  The stored profiles differ
\* from the list in lastRun only.
LoadDone(c) ==
    /\ calls[c].pc = "load"
    /\ \/ /\ profiles' = [j \in 1..Len(profiles) |->
                             [profiles[j] EXCEPT !.lastRun = profiles[j].docId \in dbLastRun]]
          /\ UNCHANGED error
       \/ /\ error' = "Failed to load profiles"
          /\ UNCHANGED profiles
    /\ loading' = FALSE
    /\ refreshing' = IF calls[c].kind = "refresh" THEN <<>> ELSE refreshing
    /\ calls' = [calls EXCEPT ![c] = Idle]
    /\ UNCHANGED <<harness, editor, entryCounts, comparisons, sheetDataMap, today, dbLastRun,
                   analyticsDoc, writes, nCalls, merged, fresh>>

\* the store applies the oldest setDoc of saveAnalytics
ApplyWrite ==
    /\ writes # <<>>
    /\ analyticsDoc' = Some(Head(writes))
    /\ writes' = Tail(writes)
    /\ UNCHANGED <<harness, editor, profiles, entryCounts, comparisons, sheetDataMap, refreshing,
                   error, loading, today, dbLastRun, calls, nCalls, merged, fresh>>

Next ==
    \/ \E p \in 1..Len(profiles) : RunAnalysisClick(p)
    \/ RefreshAllClick
    \/ \E c \in Slots : UpdateDone(c)
    \/ \E c \in Slots : FetchDone(c)
    \/ \E c \in Slots : LoadDone(c)
    \/ ApplyWrite

Spec == Init /\ [][Next]_vars

----------------------------------------------------------------------------
(* The component over a list of profiles longer than one batch *)

\* four stored profiles without filters, each on a spreadsheet of its own
BatchProfiles ==
    [j \in 1..(batchSize + 1) |->
        [docId |-> <<"d3", "d4", "d5", "d6">>[j],
         id |-> <<"s3", "s4", "s5", "s6">>[j],
         range |-> <<83, 33, 65, 49, 58, 67, 57>>, dateColumn |-> <<49>>,
         name |-> <<"C", "D", "E", "F">>[j],
         filterGroups |-> None, lastRun |-> FALSE,
         analysisColumn |-> Some(<<49>>)]]

\* the component once loadInitialData has found these profiles and no analytics
InitBatch ==
    /\ fn = "none"
    /\ arg = None
    /\ ret = None
    /\ analyticsDoc = None
    /\ dbLastRun = {}
    /\ profiles = BatchProfiles
    /\ entryCounts = <<>>
    /\ comparisons = <<>>
    /\ sheetDataMap = <<>>
    /\ refreshing = <<>>
    /\ error = ""
    /\ loading = FALSE
    /\ today = 12
    /\ writes = <<>>
    /\ calls = [c \in Slots |-> Idle]
    /\ nCalls = 0
    /\ merged = NoMerge
    /\ fresh = <<>>
    /\ NotEditing

SpecBatch == InitBatch /\ [][Next]_vars

----------------------------------------------------------------------------
(* The component over imported profiles: handleBulkImport *)

\* the lines of an imported file, split at ',' and trimmed: a name and a
\* spreadsheet id, either of which may be missing
ImportLines == [name : {"A", "B", ""}, sheetId : {"s1", "s2"}]

\* the lines that give a profile: if (name && sheetId)
importedLines(lines) ==
    SelectSeq(lines, LAMBDA line : line.name # "" /\ line.sheetId # "")

\* the documents profilesDB.add makes of the lines, as loadProfiles reads them
\* back: range 'Sheet1!A2:Z1000', dateColumn '1', no filter
importedProfiles(lines) ==
    LET kept == importedLines(lines)
    IN  [j \in 1..Len(kept) |->
            [docId |-> <<"d1", "d2">>[j],
             id |-> kept[j].sheetId,
             range |-> <<83, 104, 101, 101, 116, 49, 33, 65, 50, 58, 90, 49, 48, 48, 48>>,
             dateColumn |-> <<49>>,
             name |-> kept[j].name,
             filterGroups |-> None, lastRun |-> FALSE,
             analysisColumn |-> None]]

\* the store and the list are empty
InitImport ==
    /\ fn = "none"
    /\ arg = None
    /\ ret = None
    /\ analyticsDoc = None
    /\ dbLastRun = {}
    /\ profiles = <<>>
    /\ entryCounts = <<>>
    /\ comparisons = <<>>
    /\ sheetDataMap = <<>>
    /\ refreshing = <<>>
    /\ error = ""
    /\ loading = FALSE
    /\ today = 12
    /\ writes = <<>>
    /\ calls = [c \in Slots |-> Idle]
    /\ nCalls = 0
    /\ merged = NoMerge
    /\ fresh = <<>>
    /\ NotEditing

\* onChange={handleBulkImport} with a file of two lines, into the empty list:
\* the profiles are added to the store and loadProfiles puts them in the list,
\* or the import fails
HandleBulkImport(lines) ==
    /\ profiles = <<>>
    /\ \A c \in Slots : IsFree(c)
    /\ \/ /\ profiles' = importedProfiles(lines)
          /\ error' = ""
       \/ /\ error' = "Failed to import profiles"
          /\ UNCHANGED profiles
    /\ UNCHANGED <<harness, editor, entryCounts, comparisons, sheetDataMap, refreshing,
                   loading, today, dbLastRun, analyticsDoc, writes, calls, nCalls, merged,
                   fresh>>

NextImport ==
    \/ \E lines \in [1..2 -> ImportLines] : HandleBulkImport(lines)
    \/ Next

SpecImport == InitImport /\ [][NextImport]_vars

----------------------------------------------------------------------------
(* Properties of the aggregate and its persistence *)

OfSheet(results, sheetName) ==
    SelectSeq(results, LAMBDA c: c.sheetName = sheetName)

NotOfSheet(results, sheetName) ==
    SelectSeq(results, LAMBDA c: c.sheetName # sheetName)

\* no invocation in flight and no write of the analytics document pending
Quiescent == writes = <<>> /\ \A c \in Slots : IsFree(c)

\* C8: a step that merges the results of a successful fetch of sheet S leaves in
\* the in-memory aggregate, under the name S, exactly the newly computed entry
\* counts and comparisons, leaves the entries of every other sheet as they were,
\* and merging the same results once more changes nothing.
C8_ReplaceBySheetName ==
    [][merged'.n # merged.n =>
          /\ OfSheet(entryCounts', merged'.sheetName) = merged'.entryCounts
          /\ OfSheet(comparisons', merged'.sheetName) = merged'.comparisons
          /\ NotOfSheet(entryCounts', merged'.sheetName)
                = NotOfSheet(entryCounts, merged'.sheetName)
          /\ NotOfSheet(comparisons', merged'.sheetName)
                = NotOfSheet(comparisons, merged'.sheetName)
          /\ mergeBySheet(entryCounts', merged'.sheetName, merged'.entryCounts)
                = entryCounts'
          /\ mergeBySheet(comparisons', merged'.sheetName, merged'.comparisons)
                = comparisons']_vars

\* a fetch of a sheet that had results already was merged next to the results of
\* another sheet, and the earlier comparisons of the sheet are gone
C8_Witness ==
    /\ merged.sheetName = "A"
    /\ merged.replaced
    /\ merged.kept
    /\ merged.comparisons = <<>>
    /\ comparisons = <<>>
    /\ OfSheet(entryCounts, "B") # <<>>
    /\ OfSheet(entryCounts, "A") = merged.entryCounts

\* C9: once the invocations have completed after at least one merge and every
\* write they issued is applied, the persisted analytics document holds the
\* entry counts and the comparisons of the in-memory aggregate.
C9_PersistedEqualsMerged ==
    (Quiescent /\ DOMAIN fresh # {}) =>
        analyticsDoc = Some([entryCounts |-> entryCounts, comparisons |-> comparisons])

HoldsFresh(counts, results) ==
    \A sheetName \in DOMAIN fresh :
        /\ OfSheet(counts, sheetName) = fresh[sheetName].entryCounts
        /\ OfSheet(results, sheetName) = fresh[sheetName].comparisons

\* C10: once analyses of both sheets "A" and "B" have completed and their writes
\* are applied, the aggregate in memory and the persisted document both hold the
\* new results of "A" and of "B".
C10_NoLostUpdate ==
    (Quiescent /\ {"A", "B"} \subseteq DOMAIN fresh) =>
        /\ HoldsFresh(entryCounts, comparisons)
        /\ analyticsDoc # None
        /\ HoldsFresh(analyticsDoc[1].entryCounts, analyticsDoc[1].comparisons)

\* the half of C10 on the state in memory: the functional updaters lose nothing
InMemoryHoldsFresh == HoldsFresh(entryCounts, comparisons)

----------------------------------------------------------------------------
(* Properties of fetchData and refreshAllProfiles under failures *)

\* the fetches of the profiles before position n of the call have settled, in
\* list order, and no other
SettledUpTo(call, n) ==
    /\ Len(call.settled) = n
    /\ \A j \in 1..n : call.settled[j].docId = call.all[j].docId

\* C11: the failure of the fetch of one profile does not end the invocation or
\* skip a profile: after every fetch that settles, failed or not, the invocation
\* goes on with the next profile of the batch, with the next batch, or with
\* loadProfiles once the fetch of every profile has settled; and the results of
\* a fetch that succeeded are in the aggregate.
C11_IsolatedFailure ==
    [][\A c \in Slots :
          (calls[c].pc = "fetch" /\ calls'[c] # calls[c]) =>
              LET after == calls'[c]
                  n == Len(after.settled)
                  sheetName == after.all[n].name
              IN  /\ n = Len(calls[c].settled) + 1
                  /\ after.pc \in {"fetch", "update", "load"}
                  /\ after.pc = "fetch" => SettledUpTo(after, after.i + after.k - 1)
                  /\ after.pc = "update" => SettledUpTo(after, after.i)
                  /\ after.pc = "load" => SettledUpTo(after, Len(after.all))
                  /\ after.settled[n].ok =>
                        /\ merged'.sheetName = sheetName
                        /\ OfSheet(entryCounts', sheetName) = merged'.entryCounts
                        /\ OfSheet(comparisons', sheetName) = merged'.comparisons
                        /\ Len(OfSheet(entryCounts', sheetName)) = WindowDays]_vars

\* refreshAllProfiles is about to reload the profiles after the fetch of the
\* first profile failed and fetches of the same batch and of the next batch
\* succeeded and were merged
C11_Witness ==
    \E c \in Slots :
        /\ calls[c].pc = "load"
        /\ calls[c].kind = "refresh"
        /\ Len(calls[c].settled) = batchSize + 1
        /\ ~calls[c].settled[1].ok
        /\ calls[c].settled[2].ok
        /\ calls[c].settled[batchSize + 1].ok
        /\ OfSheet(entryCounts, "C") = <<>>
        /\ OfSheet(entryCounts, "D") # <<>>
        /\ OfSheet(entryCounts, "F") # <<>>

----------------------------------------------------------------------------
(* The error sentinel and its readers: the profile list and the CSV export *)

\* const data = sheetDataMap[profileName];
\* return data ? !Array.isArray(data) && 'error' in data : false
hasProfileError(profileName) ==
    profileName \in DOMAIN sheetDataMap /\ sheetDataMap[profileName].error

\* const delta = calculateDelta(entryCounts, profile.name), for a row of the list
listDelta(profile) == calculateDelta(entryCounts, profile.name)

\* what the row of a profile shows: the failure marker or the change, and the
\* counts `${delta?.yesterday || 0} entries`, `${delta?.today || 0} entries`
listRow(profile) ==
    LET delta == listDelta(profile)
    IN  [marker |-> hasProfileError(profile.name),
         change |-> IF hasProfileError(profile.name) \/ delta = None
                    THEN None ELSE Some(delta[1].change),
         yesterday |-> IF delta = None THEN 0 ELSE delta[1].yesterday,
         today |-> IF delta = None THEN 0 ELSE delta[1].today]

\* exportToCSV, the rows of the current entries of one profile: none when the
\* profile has no data, no analysis column or the error sentinel (the closed and
\* the new entries are behind the same test); the profiles have no extraColumn
exportCurrentEntries(profile) ==
    IF \/ profile.name \notin DOMAIN sheetDataMap
       \/ profile.analysisColumn = None
       \/ profile.analysisColumn[1] = <<>>
       \/ sheetDataMap[profile.name].error
    THEN <<>>
    ELSE LET columnNum == parseInt(profile.analysisColumn[1])
             currentRows ==
                 SelectSeq(sheetDataMap[profile.name].rows, LAMBDA row:
                     DatePart(row.date) = Format(today) /\ row.matchesFilters)
             entryIds ==
                 Truthy([r \in 1..Len(currentRows) |->
                            OptTrim(At(currentRows[r].values, columnNum - 1))])
         IN  IF columnNum <= 0 THEN <<>>
             ELSE [r \in 1..Len(entryIds) |->
                      <<profile.name, entryIds[r], <<>>, Format(today)>>]

\* C12: while the entry of a profile in sheetDataMap is the error sentinel, no
\* delta and no column change is computed for it (neither by getDeltaDetails nor
\* for its row of the list) and the export has no row for it.
C12_ErrorExcludes ==
    \A j \in 1..Len(profiles) :
        hasProfileError(profiles[j].name) =>
            /\ sheetDataMap[profiles[j].name].rows = <<>>
            /\ getDeltaDetails(entryCounts, profiles[j].name,
                               sheetDataMap[profiles[j].name].rows, 1, None,
                               hasProfileError(profiles[j].name)) = None
            /\ exportCurrentEntries(profiles[j]) = <<>>
            /\ listDelta(profiles[j]) = None

\* the number of fetches of the call that failed, over all its batches
Failures(call) == Len(SelectSeq(call.settled, LAMBDA f: ~f.ok))

\* C13: when refreshAllProfiles has been through all its batches, the error
\* message gives the number of profiles whose fetch failed in the run, and there
\* is no message when none failed.
C13_FailureCount ==
    \A c \in Slots :
        (calls[c].kind = "refresh" /\ calls[c].pc = "load") =>
            error = IF Failures(calls[c]) > 0
                    THEN failedSummary(Failures(calls[c]))
                    ELSE ""

\* the requests to the spreadsheet API a call is waiting for
Outstanding(call) == IF call.pc = "fetch" THEN 1 ELSE 0

\* the docIds of the profiles at the positions first..last of the list of a call
DocIdsAt(call, first, last) ==
    {call.all[j].docId : j \in {n \in first..last : n <= Len(call.all)}}

\* C14: refreshAllProfiles goes through its list in consecutive batches of 3, in
\* list order: the batch starts at a multiple of 3, its lastRun updates are
\* those of its own (at most 3) profiles, the profile being fetched is within the
\* batch and every profile before it, hence every profile of the earlier
\* batches, has had its fetch settled; at most 3 requests are outstanding.
C14_BatchesOfThree ==
    [][\A c \in Slots :
          LET before == calls[c]
              after == calls'[c]
          IN  after.kind = "refresh" =>
                /\ Outstanding(after) <= 3
                /\ after.i % 3 = 0
                /\ after.pc = "update" =>
                      /\ after.i < Len(after.all)
                      /\ SettledUpTo(after, after.i)
                /\ after.pc = "fetch" =>
                      /\ after.k \in 1..3
                      /\ after.i + after.k <= Len(after.all)
                      /\ SettledUpTo(after, after.i + after.k - 1)
                /\ (before.pc = "update" /\ after # before) =>
                      /\ dbLastRun' \ dbLastRun \subseteq
                            DocIdsAt(before, before.i + 1, before.i + 3)
                      /\ after.pc \in {"fetch", "idle"}
                /\ (before.pc = "fetch" /\ after.pc = "update") =>
                      /\ after.i = before.i + 3
                      /\ before.k = 3]_vars

\* the second batch of a refresh is being fetched, after the three fetches of
\* the first batch settled
C14_Witness ==
    \E c \in Slots :
        /\ calls[c].kind = "refresh"
        /\ calls[c].pc = "fetch"
        /\ calls[c].i = 3
        /\ Len(calls[c].settled) = 3
        /\ Len(calls[c].all) = 4
        /\ docIdsOf(calls[c].all) \subseteq dbLastRun

----------------------------------------------------------------------------
(* CSV export: arrayToCSV *)

\* the text of one cell: '' for null and undefined, String(cell) in double quotes
\* with every '"' doubled when it includes ',', '"' or '\n', String(cell) otherwise
RECURSIVE doubleQuotes(_)
doubleQuotes(cellStr) ==
    IF cellStr = <<>> THEN <<>>
    ELSE IF Head(cellStr) = 34 THEN <<34, 34>> \o doubleQuotes(Tail(cellStr))
    ELSE <<Head(cellStr)>> \o doubleQuotes(Tail(cellStr))

csvCell(cell) ==
    IF cell = None THEN <<>>
    ELSE LET cellStr == cell[1]
         IN  IF Includes(cellStr, 44) \/ Includes(cellStr, 34) \/ Includes(cellStr, 10)
             THEN <<34>> \o doubleQuotes(cellStr) \o <<34>>
             ELSE cellStr

\* Array.prototype.join with a one-character separator
RECURSIVE Join(_, _)
Join(strs, sep) ==
    IF strs = <<>> THEN <<>>
    ELSE IF Len(strs) = 1 THEN strs[1]
    ELSE strs[1] \o <<sep>> \o Join(Tail(strs), sep)

\* data.map(row => row.map(cell => ...).join(',')).join('\n')
arrayToCSV(data) ==
    Join([r \in 1..Len(data) |->
              Join([c \in 1..Len(data[r]) |-> csvCell(data[r][c])], 44)], 10)

\* Reading a CSV text by the quoted-CSV rules: a field that opens with '"' runs
\* to the next '"' that is not doubled, '""' inside it standing for one '"';
\* outside quotes ',' ends the field and a line break ends the record.  A line
\* break is CR LF, LF or CR.
RECURSIVE ParseFrom(_, _, _, _, _, _)
ParseFrom(text, i, records, record, field, quoted) ==
    IF i > Len(text) THEN Append(records, Append(record, field))
    ELSE LET ch == text[i]
             nextIs(code) == i < Len(text) /\ text[i + 1] = code
         IN  IF quoted
             THEN IF ch = 34 /\ nextIs(34)
                  THEN ParseFrom(text, i + 2, records, record, Append(field, 34), TRUE)
                  ELSE IF ch = 34
                  THEN ParseFrom(text, i + 1, records, record, field, FALSE)
                  ELSE ParseFrom(text, i + 1, records, record, Append(field, ch), TRUE)
             ELSE IF ch = 34 /\ field = <<>>
                  THEN ParseFrom(text, i + 1, records, record, field, TRUE)
                  ELSE IF ch = 44
                  THEN ParseFrom(text, i + 1, records, Append(record, field), <<>>, FALSE)
                  ELSE IF ch = 13 /\ nextIs(10)
                  THEN ParseFrom(text, i + 2, Append(records, Append(record, field)),
                                 <<>>, <<>>, FALSE)
                  ELSE IF ch \in {10, 13}
                  THEN ParseFrom(text, i + 1, Append(records, Append(record, field)),
                                 <<>>, <<>>, FALSE)
                  ELSE ParseFrom(text, i + 1, records, record, Append(field, ch), FALSE)

parseCSV(text) == ParseFrom(text, 1, <<>>, <<>>, <<>>, FALSE)

\* the cells a row of the export may hold: null, '', 'a', ',', '"', '\n', '\r'
CsvCells ==
    {None, Some(<<>>), Some(<<97>>), Some(<<44>>), Some(<<34>>), Some(<<10>>),
     Some(<<13>>)}

InitCSV ==
    /\ fn = "none"
    /\ arg \in [data : SeqsUpTo(SeqsUpTo(CsvCells, MaxCsv), MaxCsv)]
    /\ ret = None
    /\ Unmounted

CallArrayToCSV ==
    /\ fn = "none"
    /\ "data" \in DOMAIN arg
    /\ fn' = "arrayToCSV"
    /\ ret' = arrayToCSV(arg.data)
    /\ UNCHANGED <<arg, component, editor>>

SpecCSV == InitCSV /\ [][CallArrayToCSV]_vars

\* String(cell) of every cell, '' for null and undefined
cellStrings(data) ==
    [r \in 1..Len(data) |->
        [c \in 1..Len(data[r]) |->
            IF data[r][c] = None THEN <<>> ELSE data[r][c][1]]]

\* the rendering of a cell as the rule gives it
QuotedCell(str) == <<34>> \o doubleQuotes(str) \o <<34>>

NeedsQuotes(str) == \E i \in 1..Len(str) : str[i] \in {44, 34, 10}

\* C21: arrayToCSV renders a cell with a comma, a double quote or a newline in
\* double quotes with its double quotes doubled, null and undefined as the empty
\* string and every other cell verbatim, joins cells with ',' and rows with a
\* newline, and reading the text back by the quoted-CSV rules gives the strings
\* of the cells (of a table that has a row, and a cell in every row: the text
\* of no row, of a row of no cell and of a row of one empty cell is the same).
C21_CsvRoundTrip ==
    (fn = "arrayToCSV" /\ "data" \in DOMAIN arg) =>
        LET strs == cellStrings(arg.data)
        IN  /\ ret = Join([r \in 1..Len(strs) |->
                              Join([c \in 1..Len(strs[r]) |->
                                       IF NeedsQuotes(strs[r][c])
                                       THEN QuotedCell(strs[r][c])
                                       ELSE strs[r][c]], 44)], 10)
            /\ (strs # <<>> /\ \A r \in 1..Len(strs) : strs[r] # <<>>) =>
                   parseCSV(ret) = strs

----------------------------------------------------------------------------
(* Column numbering: filters against the analysis column and the extra column *)

\* the cell a filter on column n reads: row[filter.column - 1] of the fetched row
FilterCellOf(cells, n) == cellOr(cells, [column |-> n])

\* the cell the analysis column n (or the extra column n) reads:
\* row.values[columnIndex - 1] of the parsed row
AnalysisCellOf(parsed, n) ==
    LET cell == At(parsed.values, n - 1)
    IN  IF cell = None THEN <<>> ELSE cell[1]

\* C22: for every row and every column number N, a filter on column N and the
\* analysis (or extra) column N read the same cell of the fetched row, wherever
\* the date column is within the row.
C22_OneConvention ==
    (fn = "parseRow" /\ arg.isArray /\ arg.dateColumnIndex \in 0..(Len(arg.row) - 1)) =>
        \A n \in 1..3 : FilterCellOf(arg.row, n) = AnalysisCellOf(ret, n)

----------------------------------------------------------------------------
(* Profile editing: startEditing, cancelEditing, handleEditChange, saveProfile
   and the FilterEditor.  A filter group is an object: the filterGroups of a
   profile is a list of references into heap, so that the copy made by
   { ...profile } and by [...filterGroups] shares its groups with the original. *)

\* two profiles on the same spreadsheet, the first with one filter group
EditProfiles ==
    << [docId |-> "d1", id |-> "s1", name |-> "A",
        range |-> <<83, 33, 65, 49, 58, 67, 57>>, dateColumn |-> <<49>>,
        filterGroups |-> Some(<<1>>)],
       [docId |-> "d2", id |-> "s1", name |-> "B",
        range |-> <<83, 33, 65, 49, 58, 67, 57>>, dateColumn |-> <<49>>,
        filterGroups |-> None] >>

EditHeap ==
    << [filters |-> <<Flt(1, <<>>, "equals")>>, logicalOperator |-> "AND"] >>

\* a profile list read through the references
Resolved(list, objs) ==
    [j \in 1..Len(list) |->
        [list[j] EXCEPT !.filterGroups =
            IF @ = None THEN None
            ELSE Some([k \in 1..Len(@[1]) |-> objs[@[1][k]]])]]

InitEdit ==
    /\ fn = "none"
    /\ arg = None
    /\ ret = None
    /\ profiles = EditProfiles
    /\ heap = EditHeap
    /\ editingProfile = None
    /\ isEditing = None
    /\ saving = <<>>
    /\ editStart = None
    /\ lastSave = "none"
    /\ entryCounts = <<>>
    /\ comparisons = <<>>
    /\ sheetDataMap = <<>>
    /\ refreshing = <<>>
    /\ error = ""
    /\ loading = FALSE
    /\ today = 12
    /\ dbLastRun = {}
    /\ analyticsDoc = None
    /\ writes = <<>>
    /\ calls = <<>>
    /\ nCalls = 0
    /\ merged = NoMerge
    /\ fresh = <<>>

aggregate == <<entryCounts, comparisons, sheetDataMap, refreshing, loading, today,
               dbLastRun, analyticsDoc, writes, calls, merged, fresh>>

\* profile.docId === isEditing && editingProfile: the row shows the edit form
FormShown ==
    /\ editingProfile # None
    /\ \E j \in 1..Len(profiles) : isEditing = Some(profiles[j].docId)

\* onClick={() => startEditing(profile)} of a row that does not show the form
StartEditing(j) ==
    /\ ~(editingProfile # None /\ isEditing = Some(profiles[j].docId))
    /\ editingProfile' = Some(profiles[j])
    /\ isEditing' = Some(profiles[j].docId)
    /\ editStart' = Some(Resolved(profiles, heap))
    /\ UNCHANGED <<harness, aggregate, nCalls, profiles, error, heap, saving, lastSave>>

CancelEditing ==
    /\ FormShown
    /\ editingProfile' = None
    /\ isEditing' = None
    /\ UNCHANGED <<harness, aggregate, nCalls, profiles, error, heap, saving, editStart,
                   lastSave>>

\* handleEditChange(field, value) from an input of the form
HandleEditChange(field, value) ==
    /\ FormShown
    /\ editingProfile' = Some([editingProfile[1] EXCEPT ![field] = value])
    /\ UNCHANGED <<harness, aggregate, nCalls, profiles, error, isEditing, heap, saving,
                   editStart, lastSave>>

\* filterGroups={editingProfile.filterGroups || []}
editorGroups ==
    IF editingProfile[1].filterGroups = None THEN <<>>
    ELSE editingProfile[1].filterGroups[1]

\* onChange(newGroups): handleEditChange('filterGroups', newGroups)
onChange(newGroups) ==
    editingProfile' = Some([editingProfile[1] EXCEPT !.filterGroups = Some(newGroups)])

\* the groups the editor may hold at once
CanAddGroup == Len(heap) < MaxGroups

AddFilterGroup ==
    /\ FormShown
    /\ CanAddGroup
    /\ heap' = Append(heap, [filters |-> <<>>, logicalOperator |-> "AND"])
    /\ onChange(Append(editorGroups, Len(heap) + 1))
    /\ UNCHANGED <<harness, aggregate, nCalls, profiles, error, isEditing, saving,
                   editStart, lastSave>>

\* newGroups = [...filterGroups]; newGroups[groupIndex].filters.push({...})
AddFilter(groupIndex) ==
    /\ FormShown
    /\ groupIndex \in 1..Len(editorGroups)
    /\ Len(heap[editorGroups[groupIndex]].filters) < MaxFilters
    /\ heap' = [heap EXCEPT ![editorGroups[groupIndex]].filters =
                                Append(@, Flt(1, <<>>, "equals"))]
    /\ onChange(editorGroups)
    /\ UNCHANGED <<harness, aggregate, nCalls, profiles, error, isEditing, saving,
                   editStart, lastSave>>

\* what the inputs of a filter may send
FilterUpdates == {[value |-> <<120>>]}

\* newGroups[groupIndex].filters[filterIndex] = { ...old, ...updates }
UpdateFilter(groupIndex, filterIndex, updates) ==
    /\ FormShown
    /\ groupIndex \in 1..Len(editorGroups)
    /\ filterIndex \in 1..Len(heap[editorGroups[groupIndex]].filters)
    /\ heap' = [heap EXCEPT ![editorGroups[groupIndex]].filters[filterIndex] =
                                updates @@ @]
    /\ onChange(editorGroups)
    /\ UNCHANGED <<harness, aggregate, nCalls, profiles, error, isEditing, saving,
                   editStart, lastSave>>

\* newGroups[groupIndex].filters.splice(filterIndex, 1); a group left without
\* filters is taken out of newGroups
RemoveFilter(groupIndex, filterIndex) ==
    /\ FormShown
    /\ groupIndex \in 1..Len(editorGroups)
    /\ filterIndex \in 1..Len(heap[editorGroups[groupIndex]].filters)
    /\ LET left == splice1(heap[editorGroups[groupIndex]].filters, filterIndex - 1)[2]
       IN  /\ heap' = [heap EXCEPT ![editorGroups[groupIndex]].filters = left]
           /\ onChange(IF left = <<>>
                       THEN splice1(editorGroups, groupIndex - 1)[2]
                       ELSE editorGroups)
    /\ UNCHANGED <<harness, aggregate, nCalls, profiles, error, isEditing, saving,
                   editStart, lastSave>>

\* newGroups[groupIndex].logicalOperator = operator
UpdateGroupOperator(groupIndex, operator) ==
    /\ FormShown
    /\ groupIndex \in 1..Len(editorGroups)
    /\ heap' = [heap EXCEPT ![editorGroups[groupIndex]].logicalOperator = operator]
    /\ onChange(editorGroups)
    /\ UNCHANGED <<harness, aggregate, nCalls, profiles, error, isEditing, saving,
                   editStart, lastSave>>

\* onClick={() => saveProfile(profile)}: up to the await of profilesDB.update.
\* The invocation keeps updatedProfile = { ...editingProfile } and the profiles
\* of the render it was created in.
SaveProfileClick ==
    /\ FormShown
    /\ nCalls < MaxCalls
    /\ nCalls' = nCalls + 1
    /\ saving' = Append(saving, [updatedProfile |-> editingProfile[1],
                                 profiles |-> profiles])
    /\ editStart' = None
    /\ UNCHANGED <<harness, aggregate, profiles, error, editingProfile, isEditing, heap,
                   lastSave>>

\* profiles.map(p => p.id === updatedProfile.id ? updatedProfile : p)
updatedProfiles(list, updatedProfile) ==
    [j \in 1..Len(list) |->
        IF list[j].id = updatedProfile.id THEN updatedProfile ELSE list[j]]

\* profilesDB.update settles: the list is rebuilt and the form closed, or the
\* catch sets the error
SaveProfileDone(k, ok) ==
    /\ k \in 1..Len(saving)
    /\ saving' = splice1(saving, k - 1)[2]
    /\ IF ok
       THEN /\ profiles' = updatedProfiles(saving[k].profiles, saving[k].updatedProfile)
            /\ isEditing' = None
            /\ editingProfile' = None
            /\ lastSave' = "saved"
            /\ UNCHANGED error
       ELSE /\ error' = "Failed to save profile"
            /\ lastSave' = "failed"
            /\ UNCHANGED <<profiles, isEditing, editingProfile>>
    /\ UNCHANGED <<harness, aggregate, nCalls, heap, editStart>>

NextEdit ==
    \/ \E j \in 1..Len(profiles) : StartEditing(j)
    \/ CancelEditing
    \/ \E value \in {"s1", "s2"} : HandleEditChange("id", value)
    \/ AddFilterGroup
    \/ \E g \in 1..MaxGroups : AddFilter(g)
    \/ \E g \in 1..MaxGroups, f \in 1..MaxFilters, updates \in FilterUpdates :
           UpdateFilter(g, f, updates)
    \/ \E g \in 1..MaxGroups, f \in 1..MaxFilters : RemoveFilter(g, f)
    \/ \E g \in 1..MaxGroups, operator \in {"AND", "OR"} : UpdateGroupOperator(g, operator)
    \/ SaveProfileClick
    \/ \E k \in 1..MaxCalls, ok \in BOOLEAN : SaveProfileDone(k, ok)

SpecEdit == InitEdit /\ [][NextEdit]_vars

----------------------------------------------------------------------------
(* C23, C24: cancelling and saving an edit *)

\* C23: after startEditing, any edits and cancelEditing, with no save since the
\* edit was started, the profiles list (the groups of every profile, their
\* filters and logicalOperator included) reads as it did before startEditing.
C23_CancelDiscards ==
    (editingProfile = None /\ editStart # None) =>
        Resolved(profiles, heap) = editStart[1]

\* C24: a saveProfile that succeeds replaces the entry of the edited profile
\* (same docId) by the edited profile and leaves every other entry of the list
\* as it was.
C24_SaveChangesOneEntry ==
    [][(lastSave' = "saved" /\ Len(saving') < Len(saving)) =>
          \E k \in 1..Len(saving) :
              /\ saving' = splice1(saving, k - 1)[2]
              /\ Len(profiles') = Len(profiles)
              /\ \A j \in 1..Len(profiles) :
                    profiles'[j] =
                        IF profiles[j].docId = saving[k].updatedProfile.docId
                        THEN saving[k].updatedProfile
                        ELSE profiles[j]]_vars

----------------------------------------------------------------------------
(* C25: the delta of the profile list against the comparison day in force *)

\* C25: when customCompareDate is set and the sheet has an entry count of that
\* date, the delta the list shows for the profile and sorts by, which is
\* calculateDelta(entryCounts, profile.name), is the delta getDeltaDetails
\* returns in the same state: the count of the custom date and the change
\* against it.
C25_ListDeltaAgainstCustomDate ==
    (/\ fn = "calculateDelta"
     /\ ~arg.profileError
     /\ Given(arg.customCompareDate)
     /\ \E i \in 1..Len(arg.entryCounts) :
            /\ arg.entryCounts[i].sheetName = arg.sheetName
            /\ arg.entryCounts[i].date = arg.customCompareDate[1]) =>
        LET details == getDeltaDetails(arg.entryCounts, arg.sheetName, DeltaSheetData,
                           0, arg.customCompareDate, FALSE)
        IN  /\ details # None
            /\ ret = Some(details[1].change)

----------------------------------------------------------------------------
(* C26: the results of a refresh of all profiles, profile by profile *)

\* the entry counts the aggregate holds under a sheet name
CountsNamed(name) == SelectSeq(entryCounts, LAMBDA entry : entry.sheetName = name)

\* C26: when refreshAllProfiles has been through all its batches and every
\* fetch succeeded, the entry counts the aggregate holds under the name of each
\* profile are the 7 day counts of the rows fetched for that profile.
C26_OwnCounts ==
    \A c \in Slots :
        (/\ calls[c].kind = "refresh"
         /\ calls[c].pc = "load"
         /\ \A n \in 1..Len(calls[c].settled) : calls[c].settled[n].ok) =>
            \A j \in 1..Len(calls[c].all) :
                \E n \in 1..Len(calls[c].settled) :
                    /\ calls[c].settled[n].docId = calls[c].all[j].docId
                    /\ Len(calls[c].settled[n].entryCounts) = WindowDays
                    /\ CountsNamed(calls[c].all[j].name) = calls[c].settled[n].entryCounts

----------------------------------------------------------------------------
(* C27: the aggregate of a profile whose fetch failed *)

ComparisonsNamed(name) ==
    SelectSeq(comparisons, LAMBDA result : result.sheetName = name)

\* the name of the profile of a call that has the docId
NameOf(call, docId) ==
    call.all[CHOOSE j \in 1..Len(call.all) : call.all[j].docId = docId].name

\* C27: when runAnalysis or refreshAllProfiles has been through its fetches, the
\* aggregate still holds, for every profile whose fetch failed, the entry counts
\* and the comparisons it held for that profile when the operation started.
C27_FailureKeepsResults ==
    \A c \in Slots :
        calls[c].pc = "load" =>
            \A n \in 1..Len(calls[c].settled) :
                ~calls[c].settled[n].ok =>
                    LET name == NameOf(calls[c], calls[c].settled[n].docId)
                    IN  /\ CountsNamed(name) =
                              SelectSeq(calls[c].entryCounts,
                                        LAMBDA entry : entry.sheetName = name)
                        /\ ComparisonsNamed(name) =
                              SelectSeq(calls[c].comparisons,
                                        LAMBDA result : result.sheetName = name)

----------------------------------------------------------------------------
(* C28: refreshAllProfiles when an update of lastRun fails *)

\* C28: refreshAllProfiles ends only after the fetch of every profile of its
\* list has settled, also when a lastRun update of a batch was rejected, and
\* refreshing is empty when it ends.
C28_UpdateFailureIsolated ==
    [][\A c \in Slots :
          (calls[c].kind = "refresh" /\ calls'[c] = Idle) =>
              /\ SettledUpTo(calls[c], Len(calls[c].all))
              /\ refreshing' = <<>>]_vars

\* refreshing is empty whenever refreshAllProfiles ends
RefreshingEmptied ==
    [][\A c \in Slots :
          (calls[c].kind = "refresh" /\ calls'[c] = Idle) => refreshing' = <<>>]_vars

----------------------------------------------------------------------------
(* Current entries: getCurrentEntries and the CurrentEntriesModal *)

\* getCurrentEntries(sheetData, columnIndex, additionalColumnIndex) on the day
\* new Date() falls on; sheetData is [error, rows], additionalColumnIndex 0
\* when it is not given
getCurrentEntries(sheetData, columnIndex, additionalColumnIndex, day) ==
    IF sheetData.error
    THEN [entries |-> <<>>, additionalEntries |-> None]
    ELSE LET filteredRows ==
                 SelectSeq(sheetData.rows, LAMBDA row :
                     DatePart(row.date) = Format(day) /\ row.matchesFilters)
             column(n) ==
                 Truthy([r \in 1..Len(filteredRows) |->
                            OptTrim(At(filteredRows[r].values, n - 1))])
         IN  [entries |-> column(columnIndex),
              additionalEntries |->
                  IF additionalColumnIndex # 0 THEN Some(column(additionalColumnIndex))
                  ELSE None]

\* rows of today with every pairing of an entry cell ('', 'a', 'b') and an extra
\* cell ('', 'x', 'y'), a row of the day before and a row the filters reject
EntryRows ==
    { [date |-> Format(12), values |-> <<id, extra>>, matchesFilters |-> TRUE] :
          id \in {<<>>, <<97>>, <<98>>}, extra \in {<<>>, <<120>>, <<121>>} }
      \cup { [date |-> Format(11), values |-> <<<<97>>, <<120>>>>, matchesFilters |-> TRUE],
             [date |-> Format(12), values |-> <<<<98>>, <<121>>>>, matchesFilters |-> FALSE] }

InitEntries ==
    /\ fn = "none"
    /\ arg \in [currentData : [error : {FALSE}, rows : SeqsUpTo(EntryRows, MaxRows)]
                                  \cup {[error |-> TRUE, rows |-> <<>>]},
                analysisColumn : {1},
                extraColumn : {0, 2},
                day : {12}]
    /\ ret = None
    /\ Unmounted

CallGetCurrentEntries ==
    /\ fn = "none"
    /\ "currentData" \in DOMAIN arg
    /\ fn' = "getCurrentEntries"
    /\ ret' = getCurrentEntries(arg.currentData, arg.analysisColumn, arg.extraColumn,
                                arg.day)
    /\ UNCHANGED <<arg, component, editor>>

SpecEntries == InitEntries /\ [][CallGetCurrentEntries]_vars

\* the rows of today that match the filters and have an entry in the column,
\* in order: the rows the entries come from
EntryRowsOf(sheetData, columnIndex, day) ==
    SelectSeq(sheetData.rows, LAMBDA row :
        /\ DatePart(row.date) = Format(day)
        /\ row.matchesFilters
        /\ Len(row.values) >= columnIndex
        /\ Trim(row.values[columnIndex]) # <<>>)

\* the trimmed cell of a column of a row, '' when the row has none
TrimmedCell(row, columnIndex) ==
    IF Len(row.values) >= columnIndex THEN Trim(row.values[columnIndex]) ELSE <<>>

\* C29: entries and additionalEntries are aligned by row: wherever both have an
\* element at index i, additionalEntries[i] is the extra-column value of the row
\* entries[i] comes from, also when rows of today have an empty entry cell or an
\* empty extra cell.
C29_AlignedByRow ==
    (fn = "getCurrentEntries" /\ ~arg.currentData.error /\ arg.extraColumn # 0) =>
        LET from == EntryRowsOf(arg.currentData, arg.analysisColumn, arg.day)
        IN  /\ Len(ret.entries) = Len(from)
            /\ \A i \in 1..Len(ret.entries) :
                  /\ ret.entries[i] = TrimmedCell(from[i], arg.analysisColumn)
                  /\ i <= Len(ret.additionalEntries[1]) =>
                        ret.additionalEntries[1][i] = TrimmedCell(from[i], arg.extraColumn)

----------------------------------------------------------------------------
(* C30: one analysis of a profile at a time *)

\* the docIds of the profiles an invocation is working on and has not fetched yet
InFlight(call) ==
    IF call.pc \in {"update", "fetch"}
    THEN {call.all[j].docId : j \in (Len(call.settled) + 1)..Len(call.all)}
    ELSE {}

\* disabled={isRefreshing} of the run button of a profile
RunDisabled(docId) == Includes(refreshing, docId)

\* disabled={refreshing.length > 0} of the Refresh All button
RefreshAllDisabled == Len(refreshing) > 0

\* C30: from the start of runAnalysis(P), or of refreshAllProfiles over a list
\* with P, until the fetch of P has completed, P.docId is in refreshing, so that
\* the run button of P and the Refresh All button are disabled and no second
\* analysis of P can be started.
C30_OneInFlight ==
    \A c \in Slots :
        \A docId \in InFlight(calls[c]) :
            /\ Includes(refreshing, docId)
            /\ RunDisabled(docId)
            /\ RefreshAllDisabled

==========================================================================
